---------------------------- MODULE Spec2Model ----------------------------
(***************************************************************************)
(* Simulation Builder: stats, the command parser, the state manager, the   *)
(* message handler and stat modifiers, as state machines.                  *)
(*                                                                         *)
(* Texts and identifiers are sequences of one-character strings.  Numbers  *)
(* are integers.  An optional number (a config field that may be missing   *)
(* or NaN) is a set with at most one element: {} is missing/NaN.           *)
(***************************************************************************)
EXTENDS Integers, Sequences, FiniteSets, TLC

VARIABLES
    currentState,   \* StateManager.currentState (id "none" models null)
    globalState,    \* StateManager.globalState  (id "none" models null)
    settings,       \* StateManager.settings: stateScope, enabled
    chatMetadata,   \* host: per chat, the persisted state ({} or {json})
    activeChat,     \* host: the chat the context currently points to
    pending,        \* onMessageReceived calls suspended at await saveState
    build,          \* which build runs: "bundle" (index.js) or "modules"
    presets,        \* PresetManager._presets: preset id to StatPreset
    statListeners,  \* StateManager._statChangeListeners
    stateListeners, \* StateManager._stateChangeListeners
    calls,          \* listener invocations of the last operation
    ret,            \* return value of the last operation
    message,        \* text of the last message handled
    mod,            \* one StatModifier object
    modHist,        \* history of mod: tick() calls, re-stacked or not
    coll            \* one ModifierCollection: statId, modifiers in Map order

vars == <<currentState, globalState, settings, chatMetadata, activeChat, pending, build,
          presets, statListeners, stateListeners, calls, ret, message, mod, modHist, coll>>

-----------------------------------------------------------------------------
(* Bounds of the model *)

\* config numbers are the multiples of 50 from -50 to 50 * MaxK
MaxK == 1

Nums == {50 * k : k \in -1..MaxK}

Opt(S) == {{}} \cup {{x} : x \in S}

OptNums == Opt(Nums)

-----------------------------------------------------------------------------
(* Utility functions of src/index.js *)

\* toNumber(val, defaultVal): parseFloat, NaN -> default
toNumber(val, defaultVal) == IF val = {} THEN defaultVal ELSE CHOOSE n \in val : TRUE

MathMax(a, b) == IF a >= b THEN a ELSE b

MathMin(a, b) == IF a <= b THEN a ELSE b

UpperCase == <<"A","B","C","D","E","F","G","H","I","J","K","L","M",
               "N","O","P","Q","R","S","T","U","V","W","X","Y","Z">>

LowerCase == <<"a","b","c","d","e","f","g","h","i","j","k","l","m",
               "n","o","p","q","r","s","t","u","v","w","x","y","z">>

Digits == <<"0","1","2","3","4","5","6","7","8","9">>

Range(s) == {s[i] : i \in DOMAIN s}

\* config[field] of an object; `missing` when the object has no such field
Field(config, field, missing) == IF field \in DOMAIN config THEN config[field] ELSE missing

\* the only element of a set of one element
The(S) == CHOOSE x \in S : TRUE

\* an object with no field
EmptyObject == [f \in {} |-> {}]

\* generateId(prefix): prefix_<timestamp>_<random>, the two parts standing
\* for a value no other id has
GenerateId(prefix) == prefix \o <<"_", "t", "_", "r">>

\* values that are no object: null, undefined, a number, a string
NonObjects == {[kind |-> k] : k \in {"null", "undefined", "number", "string"}}

\* an array of the given items
Array(items) == [kind |-> "array", items |-> items]

\* Array.isArray(val)
IsArray(val) == "kind" \in DOMAIN val /\ val.kind = "array"

\* isPlainObject(val): not null, typeof 'object', no array
isPlainObject(val) == "kind" \notin DOMAIN val

\* data && typeof data === 'object': a record of fields or an array
IsObject(data) == "kind" \notin DOMAIN data \/ data.kind = "array"

toLowerChar(c) ==
    IF c \in Range(UpperCase)
    THEN LowerCase[CHOOSE i \in DOMAIN UpperCase : UpperCase[i] = c]
    ELSE c

\* String.prototype.toLowerCase
toLowerCase(s) == [i \in DOMAIN s |-> toLowerChar(s[i])]

\* a whitespace character (\s, trim)
IsSpace(c) == c \in {" ", "\t", "\n"}

RECURSIVE trimStart(_)
trimStart(s) == IF s # <<>> /\ IsSpace(Head(s)) THEN trimStart(Tail(s)) ELSE s

RECURSIVE trimEnd(_)
trimEnd(s) ==
    IF s # <<>> /\ IsSpace(s[Len(s)]) THEN trimEnd(SubSeq(s, 1, Len(s) - 1)) ELSE s

\* String.prototype.trim
trim(s) == trimEnd(trimStart(s))

isNonEmptyString(s) == trim(s) # <<>>

\* .replace(/[^a-z0-9_-]/g, '_')
ReplaceInvalid(s) ==
    [i \in DOMAIN s |->
        IF s[i] \in Range(LowerCase) \cup Range(Digits) \cup {"_", "-"} THEN s[i] ELSE "_"]

\* .replace(/_+/g, '_')
RECURSIVE CollapseUnderscores(_)
CollapseUnderscores(s) ==
    IF Len(s) < 2 THEN s
    ELSE IF s[1] = "_" /\ s[2] = "_" THEN CollapseUnderscores(Tail(s))
    ELSE <<s[1]>> \o CollapseUnderscores(Tail(s))

IdMaxLen == 32

\* sanitizeId(str) of src/index.js
sanitizeId(str) ==
    LET t == CollapseUnderscores(ReplaceInvalid(toLowerCase(str)))
    IN  SubSeq(t, 1, MathMin(Len(t), IdMaxLen))

-----------------------------------------------------------------------------
(* Stat (src/index.js) *)

DefaultBase == 100
DefaultMin == 0
DefaultMax == 100

\* 'Unnamed Stat'
UnnamedStat == <<"U", "n", "n", "a", "m", "e", "d", " ", "S", "t", "a", "t">>

\* new Stat(config) of an object or of a value that is no object and not
\* null.  config.id is the string itself when present; the other fields are
\* sets, {} for a missing field or one of the wrong type, else {value}
StatNew(config) ==
    LET base == toNumber(Field(config, "baseValue", {}), DefaultBase)
        name == Field(config, "name", {})
        displayMode == Field(config, "displayMode", {})
    IN  [ id           |-> IF "id" \in DOMAIN config /\ isNonEmptyString(config.id)
                           THEN sanitizeId(config.id)
                           ELSE GenerateId(<<"s", "t", "a", "t">>),
          name         |-> IF name = {} THEN UnnamedStat ELSE The(name),
          baseValue    |-> base,
          currentValue |-> toNumber(Field(config, "currentValue", {}), base),
          minValue     |-> toNumber(Field(config, "minValue", {}), DefaultMin),
          maxValue     |-> toNumber(Field(config, "maxValue", {}), DefaultMax),
          displayMode  |-> IF displayMode \in {{}, {""}} THEN "fraction" ELSE The(displayMode),
          lastChange   |-> 0 ]

Result(old, new, change) == [oldValue |-> old, newValue |-> new, actualChange |-> change]

StatModify_RequestedDelta(s, delta) ==
    LET new == MathMax(s.minValue, MathMin(s.maxValue, s.currentValue + delta))
    IN  [ stat   |-> [s EXCEPT !.currentValue = new, !.lastChange = delta],
          result |-> Result(s.currentValue, new, delta) ]

\* Stat.modify(delta): the stat after the call and the returned object
StatModify(s, delta) ==
    LET new == MathMax(s.minValue, MathMin(s.maxValue, s.currentValue + delta))
        change == new - s.currentValue
    IN  [ stat   |-> [s EXCEPT !.currentValue = new, !.lastChange = change],
          result |-> Result(s.currentValue, new, change) ]

\* Stat.set(value)
StatSet(s, value) ==
    LET new == MathMax(s.minValue, MathMin(s.maxValue, value))
        change == new - s.currentValue
    IN  [ stat   |-> [s EXCEPT !.currentValue = new, !.lastChange = change],
          result |-> Result(s.currentValue, new, change) ]

\* Stat.reset()
StatReset(s) == StatSet(s, s.baseValue)

\* Stat.setBounds(min, max)
StatSetBounds(s, min, max) ==
    LET lo0 == toNumber(min, DefaultMin)
        hi0 == toNumber(max, DefaultMax)
        lo == IF lo0 > hi0 THEN hi0 ELSE lo0
        hi == IF lo0 > hi0 THEN lo0 ELSE hi0
    IN  [s EXCEPT !.minValue = lo, !.maxValue = hi,
                  !.currentValue = MathMax(lo, MathMin(hi, s.currentValue))]

-----------------------------------------------------------------------------
(* StatManager (src/index.js): a Map from stat id to Stat *)

EmptyStats == [k \in {} |-> 0]

\* Map.set(key, value)
MapSet(m, k, v) == [x \in DOMAIN m \cup {k} |-> IF x = k THEN v ELSE m[x]]

\* Map.delete(key)
MapDelete(m, k) == [x \in DOMAIN m \ {k} |-> m[x]]

\* StatManager.add(stat)
ManagerAdd(stats, s) == MapSet(stats, s.id, s)

\* StatManager.has(statId)
ManagerHas(stats, statId) == sanitizeId(statId) \in DOMAIN stats

\* StatManager.get(statId); only used where ManagerHas holds
ManagerGet(stats, statId) == stats[sanitizeId(statId)]

\* StatManager.remove(statId)
ManagerRemove(stats, statId) == MapDelete(stats, sanitizeId(statId))

\* StatManager.resetAll()
ManagerResetAll(stats) == [k \in DOMAIN stats |-> StatReset(stats[k]).stat]

-----------------------------------------------------------------------------
(* SimulationState and the StateManager's view of it (src/index.js) *)

\* a null state reference
NoState == [id |-> "none", name |-> "", turnCount |-> 0, stats |-> EmptyStats]

\* new SimulationState(id)
NewState(id) == [id |-> id, name |-> "New Simulation", turnCount |-> 0, stats |-> EmptyStats]

\* _loadGlobalState with no stored global state
NewGlobalState == [NewState("global") EXCEPT !.name = "Global State"]

\* DEFAULT_SETTINGS; activePresetId is a setting of the modules
DefaultSettings == [stateScope |-> "per_chat", enabled |-> TRUE, activePresetId |-> <<>>]

\* StateManager.getActiveState()
ActiveState == IF settings.stateScope = "global" THEN globalState ELSE currentState

UpdateActive_Current(st) == currentState' = st /\ UNCHANGED globalState

\* a write through the reference getActiveState() returned
UpdateActive(st) ==
    IF settings.stateScope = "global"
    THEN globalState' = st /\ UNCHANGED currentState
    ELSE currentState' = st /\ UNCHANGED globalState

\* SimulationState.reset()
StateReset(st) == [st EXCEPT !.turnCount = 0, !.stats = ManagerResetAll(st.stats)]

NoResult == Result(0, 0, 0)

\* no value returned
NoRet == [op |-> "none", id |-> <<>>, arg |-> 0, result |-> NoResult]

-----------------------------------------------------------------------------
(* Operations on the stats of the active state: slash commands and dialogs *)

\* names typed by the user in the stat specification
StatNames == {<<"H", "P">>}

\* arguments of modify and set: multiples of 50, some beyond every bound
Deltas == {50 * k : k \in (0 - MaxK - 1)..(MaxK + 1)}

Configs ==
    [id : StatNames, baseValue : OptNums, currentValue : OptNums,
     minValue : OptNums, maxValue : OptNums]

hostVars == <<chatMetadata, activeChat, pending, build, presets>>
listenerVars == <<statListeners, stateListeners, calls>>
modVars == <<mod, modHist, coll>>

\* try { listener(...) } catch (e) { logError(...) }: whether the exception of
\* a listener of the given kind ("ok" or "throws") leaves the try statement
InvokeListener_NoCatch(kind) == kind = "throws"

InvokeListener(kind) == FALSE

\* the for loop of _notifyStatChange / _notifyStateChange from listener i on:
\* the listeners invoked, in order, and whether an exception left the loop
RECURSIVE NotifyFrom(_, _, _)
NotifyFrom(listeners, i, event) ==
    IF i > Len(listeners) THEN [calls |-> <<>>, escaped |-> FALSE]
    ELSE LET call == [listener |-> i, event |-> event]
         IN  IF InvokeListener(listeners[i])
             THEN [calls |-> <<call>>, escaped |-> TRUE]
             ELSE LET rest == NotifyFrom(listeners, i + 1, event)
                  IN  [calls |-> <<call>> \o rest.calls, escaped |-> rest.escaped]

\* StateManager._notifyStatChange / _notifyStateChange
Notify(listeners, event) == NotifyFrom(listeners, 1, event)

\* /simadd <name> [max] [current]; {} is a missing or non-numeric argument
SimAdd(name, maxArg, curArg) ==
    /\ ActiveState.id # "none"
    /\ LET maxVal == IF maxArg = {} THEN {DefaultMax} ELSE maxArg
           currentVal == IF curArg = {} THEN maxVal ELSE curArg
           stat == StatNew([id |-> sanitizeId(name), name |-> {name},
                            baseValue |-> maxVal, currentValue |-> currentVal,
                            minValue |-> {0}, maxValue |-> maxVal])
       IN  UpdateActive([ActiveState EXCEPT !.stats = ManagerAdd(@, stat)])
    /\ ret' = [NoRet EXCEPT !.op = "simadd", !.id = sanitizeId(name)]
    /\ UNCHANGED <<settings, hostVars, listenerVars, message, modVars>>

\* UIController.showAddStatDialog, save; the display mode chosen is the bar
AddStatDialog(name, cur, min, max) ==
    /\ ActiveState.id # "none"
    /\ LET stat == StatNew([id |-> sanitizeId(name), name |-> {name},
                            baseValue |-> {max}, currentValue |-> {cur},
                            minValue |-> {min}, maxValue |-> {max},
                            displayMode |-> {"bar"}])
       IN  UpdateActive([ActiveState EXCEPT !.stats = ManagerAdd(@, stat)])
    /\ ret' = NoRet
    /\ UNCHANGED <<settings, hostVars, listenerVars, message, modVars>>

\* UIController.showEditStatDialog, save; name and display mode are left as
\* the dialog shows them
EditStatDialog(id, cur, min, max) ==
    /\ ActiveState.id # "none"
    /\ id \in DOMAIN ActiveState.stats
    /\ LET bounded == StatSetBounds(ActiveState.stats[id], {min}, {max})
           stat == [bounded EXCEPT !.currentValue = cur]
       IN  UpdateActive([ActiveState EXCEPT !.stats[id] = stat])
    /\ ret' = [NoRet EXCEPT !.op = "edit", !.id = id]
    /\ UNCHANGED <<settings, hostVars, listenerVars, message, modVars>>

\* UIController.showEditStatDialog, delete
DeleteStatDialog(id) ==
    /\ ActiveState.id # "none"
    /\ id \in DOMAIN ActiveState.stats
    /\ UpdateActive([ActiveState EXCEPT !.stats = ManagerRemove(@, id)])
    /\ ret' = NoRet
    /\ UNCHANGED <<settings, hostVars, listenerVars, message, modVars>>

\* /simmod <statId> <delta>
SimMod(name, delta) ==
    /\ ActiveState.id # "none"
    /\ ManagerHas(ActiveState.stats, toLowerCase(name))
    /\ LET id == sanitizeId(toLowerCase(name))
           r == StatModify(ActiveState.stats[id], delta)
       IN  /\ UpdateActive([ActiveState EXCEPT !.stats[id] = r.stat])
           /\ ret' = [op |-> "modify", id |-> id, arg |-> delta, result |-> r.result]
    /\ UNCHANGED <<settings, hostVars, listenerVars, message, modVars>>

\* /simset <statId> <value>
SimSet(name, value) ==
    /\ ActiveState.id # "none"
    /\ ManagerHas(ActiveState.stats, toLowerCase(name))
    /\ LET id == sanitizeId(toLowerCase(name))
           r == StatSet(ActiveState.stats[id], value)
       IN  /\ UpdateActive([ActiveState EXCEPT !.stats[id] = r.stat])
           /\ ret' = [op |-> "set", id |-> id, arg |-> value, result |-> r.result]
    /\ UNCHANGED <<settings, hostVars, listenerVars, message, modVars>>

\* turns a state may count in the model
MaxTurns == 2

\* the body of StateManager.tick()
\* StatManager.tick() of the modules: the ids of the modifiers that the
\* collections of the stats removed; no stat here has a modifier attached
ManagerTick(stats) == <<>>

\* SimulationState.tick(): the state after it and the result it returns
StateTick(st) ==
    IF build = "bundle"
    THEN [state |-> [st EXCEPT !.turnCount = @ + 1], result |-> [turn |-> st.turnCount + 1]]
    ELSE [state |-> [st EXCEPT !.turnCount = @ + 1],
          result |-> [turn |-> st.turnCount + 1,
                      expiredModifiers |-> ManagerTick(st.stats)]]

TickBody ==
    IF ActiveState.id = "none"
    THEN /\ ret' = [NoRet EXCEPT !.op = "tick",
                      !.result = [success |-> FALSE, error |-> "No active state",
                                  threw |-> FALSE]]
         /\ UNCHANGED <<currentState, globalState, calls>>
    ELSE /\ ActiveState.turnCount < MaxTurns
         /\ \E done \in {StateTick(ActiveState)} :
               /\ UpdateActive(done.state)
               /\ \E n \in {Notify(stateListeners, [type |-> "tick"] @@ done.result)} :
                     /\ calls' = n.calls
                     /\ ret' = [NoRet EXCEPT !.op = "tick",
                                  !.result = [success |-> ~n.escaped, threw |-> n.escaped]
                                                @@ done.result]

\* a call of StateManager.tick()
Tick ==
    /\ TickBody
    /\ UNCHANGED <<settings, hostVars, statListeners, stateListeners, message, modVars>>

\* StateManager.reset()
Reset ==
    /\ ActiveState.id # "none"
    /\ UpdateActive(StateReset(ActiveState))
    /\ \E n \in {Notify(stateListeners, [type |-> "reset"])} :
          /\ calls' = n.calls
          /\ ret' = [NoRet EXCEPT !.op = "reset", !.result = [threw |-> n.escaped]]
    /\ UNCHANGED <<settings, hostVars, statListeners, stateListeners, message, modVars>>

\* /simreset: stateManager.reset()
SimReset == Reset

NoMod == [exists |-> FALSE]

\* a PresetManager with no preset
NoPresets == EmptyStats

\* no collection
NoColl == [statId |-> <<>>, modifiers |-> <<>>]

\* the chat's state as initialize() loaded it: no stat, or one stat built by
\* Stat.fromJSON from any config
InitStat ==
    /\ currentState \in
          {NewState("sim")} \cup
          {[NewState("sim") EXCEPT !.stats = ManagerAdd(@, StatNew(c))] : c \in Configs}
    /\ globalState = NewGlobalState
    /\ settings = DefaultSettings
    /\ chatMetadata = <<>>
    /\ activeChat = "c1"
    /\ pending = <<>>
    /\ build = "bundle"
    /\ presets = NoPresets
    /\ statListeners = <<>>
    /\ stateListeners = <<>>
    /\ calls = <<>>
    /\ ret = NoRet
    /\ message = <<>>
    /\ mod = NoMod
    /\ modHist = <<>>
    /\ coll = NoColl

NextStat ==
    \/ \E n \in StatNames, m, c \in OptNums : SimAdd(n, m, c)
    \/ \E n \in StatNames, c, lo, hi \in Nums : AddStatDialog(n, c, lo, hi)
    \/ \E n \in StatNames, c, lo, hi \in Nums : EditStatDialog(sanitizeId(n), c, lo, hi)
    \/ \E n \in StatNames : DeleteStatDialog(sanitizeId(n))
    \/ \E n \in StatNames, d \in Deltas : SimMod(n, d)
    \/ \E n \in StatNames, v \in Deltas : SimSet(n, v)
    \/ SimReset

SpecStat == InitStat /\ [][NextStat]_vars

\* every stat of the two states
AllStats ==
    {currentState.stats[k] : k \in DOMAIN currentState.stats}
        \cup {globalState.stats[k] : k \in DOMAIN globalState.stats}

InBounds(s) == s.minValue <= s.currentValue /\ s.currentValue <= s.maxValue

\* C1: after a modify or set call, minValue <= currentValue <= maxValue holds
\* for the stat it was called on, whatever stat was constructed
C1_ClampedAfterModifySet ==
    ret.op \in {"modify", "set"} => InBounds(ActiveState.stats[ret.id])

\* C2: currentValue lies in [minValue, maxValue] after every operation that
\* mutates a stat: construction, setBounds, reset, edit dialog, /simadd
C2_AlwaysClamped == \A s \in AllStats : InBounds(s)

\* C3: minValue <= maxValue for every stat after construction and setBounds
C3_MinLeqMax == \A s \in AllStats : s.minValue <= s.maxValue

\* C4: modify and set return oldValue = the value before the call, newValue =
\* the value after it and actualChange = newValue - oldValue, the post-clamp
\* delta; lastChange is the actualChange of the call
C4_ReturnValue ==
    [][ret'.op \in {"modify", "set"} =>
          /\ ret'.result.oldValue = ActiveState.stats[ret'.id].currentValue
          /\ ret'.result.newValue = ActiveState'.stats[ret'.id].currentValue
          /\ ret'.result.actualChange = ret'.result.newValue - ret'.result.oldValue
          /\ ActiveState'.stats[ret'.id].lastChange = ret'.result.actualChange]_vars

\* a modify call that overshot a bound: the change made is not the delta asked
C4_Witness ==
    /\ ret.op = "modify"
    /\ ret.result.actualChange # ret.arg
    /\ ret.result.actualChange # 0

-----------------------------------------------------------------------------
(* StatModifier (src/unnamed/part_001) with the helpers of src/modules/Utils.js *)

\* longest duration of a timed modifier
MaxDuration == 3

\* largest stack count
MaxStackArg == 2

\* Utils.toNumber(value, defaultValue): Number(value), non-finite -> default
UtilsToNumber(value, defaultValue) ==
    IF value = {} THEN defaultValue ELSE CHOOSE n \in value : TRUE

\* Utils.toPositiveInt(value, defaultValue), on integers
toPositiveInt(value, defaultValue) == MathMax(1, UtilsToNumber(value, defaultValue))

Permanent == -1

ModTypes == {"add", "multiply", "override"}

\* validateModifierType(type)
validateModifierType(type) == IF type \in ModTypes THEN type ELSE "add"

\* .replace(/^_|_$/g, ''): one leading and one trailing underscore removed
StripUnderscores(s) ==
    LET from == IF s # <<>> /\ s[1] = "_" THEN 2 ELSE 1
        to == IF Len(s) >= from /\ s[Len(s)] = "_" THEN Len(s) - 1 ELSE Len(s)
    IN  SubSeq(s, from, to)

\* Utils.sanitizeId(id) of a non-empty string
UtilsSanitizeId(id) ==
    StripUnderscores(CollapseUnderscores(ReplaceInvalid(toLowerCase(trim(id)))))

\* new StatModifier(config) when Date.now() returns now.  A field of config is
\* a set: {} when it is missing or of the wrong type, else {value}; type is
\* the string given
ModifierNewAt(config, now) ==
    LET id == Field(config, "id", {})
        name == Field(config, "name", {})
        statId == Field(config, "statId", {})
        source == Field(config, "source", {})
        duration == UtilsToNumber(Field(config, "duration", {}), Permanent)
    IN  [ exists            |-> TRUE,
          id                |-> IF id # {} /\ isNonEmptyString(The(id))
                                THEN UtilsSanitizeId(The(id))
                                ELSE GenerateId(<<"m", "o", "d">>),
          name              |-> IF name = {} THEN "Unnamed Modifier" ELSE The(name),
          statId            |-> IF statId # {} /\ isNonEmptyString(The(statId))
                                THEN UtilsSanitizeId(The(statId))
                                ELSE <<>>,
          type              |-> validateModifierType(Field(config, "type", "")),
          value             |-> UtilsToNumber(Field(config, "value", {}), 0),
          duration          |-> duration,
          maxStacks         |-> toPositiveInt(Field(config, "maxStacks", {}), 1),
          currentStacks     |-> toPositiveInt(Field(config, "currentStacks", {}), 1),
          source            |-> IF source = {} THEN "" ELSE The(source),
          createdAt         |-> now,
          remainingDuration |-> duration ]

\* new StatModifier(config) at time 0
ModifierNew(config) == ModifierNewAt(config, 0)

\* StatModifier.isActive()
ModifierIsActive(m) == IF m.duration < 0 THEN TRUE ELSE m.remainingDuration > 0

ModifierTick_AlwaysDecrement(m) ==
    LET left == MathMax(0, m.remainingDuration - 1)
    IN  [modifier |-> [m EXCEPT !.remainingDuration = left], active |-> left > 0]

\* StatModifier.tick(): the modifier after the call and the returned flag
ModifierTick(m) ==
    IF m.duration < 0
    THEN [modifier |-> m, active |-> TRUE]
    ELSE LET left == MathMax(0, m.remainingDuration - 1)
         IN  [modifier |-> [m EXCEPT !.remainingDuration = left], active |-> left > 0]

\* StatModifier.addStacks(count)
ModifierAddStacks(m, count) ==
    LET toAdd == toPositiveInt(count, 1)
        stacked == [m EXCEPT !.currentStacks = MathMin(m.currentStacks + toAdd, m.maxStacks)]
    IN  IF m.duration > 0
        THEN [stacked EXCEPT !.remainingDuration = m.duration]
        ELSE stacked

\* StatModifier.removeStacks(count)
ModifierRemoveStacks(m, count) ==
    LET toRemove == toPositiveInt(count, 1)
    IN  [m EXCEPT !.currentStacks = MathMax(0, m.currentStacks - toRemove)]

\* StatModifier.toJSON()
ModifierToJSON(m) ==
    [ id                |-> {m.id},
      name              |-> {m.name},
      statId            |-> {m.statId},
      type              |-> m.type,
      value             |-> {m.value},
      duration          |-> {m.duration},
      maxStacks         |-> {m.maxStacks},
      currentStacks     |-> {m.currentStacks},
      source            |-> {m.source},
      createdAt         |-> {m.createdAt},
      remainingDuration |-> {m.remainingDuration} ]

\* StatModifier.fromJSON(data) when Date.now() returns now
ModifierFromJSONAt(data, now) ==
    IF ~IsObject(data)
    THEN ModifierNewAt(EmptyObject, now)
    ELSE LET modifier == ModifierNewAt(data, now)
             remainingDuration == Field(data, "remainingDuration", {})
             createdAt == Field(data, "createdAt", {})
         IN  [modifier EXCEPT
                 !.remainingDuration = IF remainingDuration # {}
                                       THEN UtilsToNumber(remainingDuration, modifier.duration)
                                       ELSE @,
                 !.createdAt = IF createdAt # {} THEN The(createdAt) ELSE @]

ModConfigs ==
    [type : {"add", "override", "bogus"}, value : Opt({10}),
     duration : Opt((0 - 2)..MaxDuration),
     maxStacks : Opt(0..MaxStackArg), currentStacks : Opt(0..MaxStackArg)]

stateVars == <<currentState, globalState, settings, ret, message>>

\* mod.tick()
ModTick ==
    /\ mod.exists
    /\ modHist.ticks < MaxDuration + 2
    /\ mod' = ModifierTick(mod).modifier
    /\ modHist' = [modHist EXCEPT !.ticks = @ + 1, !.active = ModifierTick(mod).active]
    /\ UNCHANGED <<coll, stateVars, hostVars, listenerVars>>

\* mod.addStacks(count)
ModAddStacks(count) ==
    /\ mod.exists
    /\ mod' = ModifierAddStacks(mod, count)
    /\ modHist' = [modHist EXCEPT !.restacked = TRUE]
    /\ UNCHANGED <<coll, stateVars, hostVars, listenerVars>>

\* mod.removeStacks(count)
ModRemoveStacks(count) ==
    /\ mod.exists
    /\ mod' = ModifierRemoveStacks(mod, count)
    /\ UNCHANGED <<modHist, coll, stateVars, hostVars, listenerVars>>

\* a modifier just constructed from any config
InitMod ==
    /\ currentState = NoState
    /\ globalState = NoState
    /\ settings = DefaultSettings
    /\ chatMetadata = <<>>
    /\ activeChat = "c1"
    /\ pending = <<>>
    /\ build = "bundle"
    /\ presets = NoPresets
    /\ statListeners = <<>>
    /\ stateListeners = <<>>
    /\ calls = <<>>
    /\ ret = NoRet
    /\ message = <<>>
    /\ mod \in {ModifierNew(c) : c \in ModConfigs}
    /\ modHist = [ticks |-> 0, restacked |-> FALSE, active |-> TRUE]
    /\ coll = NoColl

NextMod ==
    \/ ModTick
    \/ \E n \in Opt(1..MaxStackArg) : ModAddStacks(n)
    \/ \E n \in Opt(1..MaxStackArg) : ModRemoveStacks(n)

SpecMod == InitMod /\ [][NextMod]_vars

\* C10: a modifier of duration d > 0 that was never re-stacked is active
\* after fewer than d ticks and inactive after d or more (and tick() returned
\* that); a modifier of negative duration is active after any number of ticks
\* and its remainingDuration is as constructed
C10_Expiry ==
    /\ (mod.duration > 0 /\ ~modHist.restacked) =>
          /\ ModifierIsActive(mod) <=> modHist.ticks < mod.duration
          /\ modHist.ticks > 0 => (modHist.active <=> modHist.ticks < mod.duration)
    /\ mod.duration < 0 =>
          /\ ModifierIsActive(mod)
          /\ modHist.active
          /\ mod.remainingDuration = mod.duration

\* the tick that expires a modifier of the longest duration
C10_Witness ==
    /\ mod.duration = MaxDuration
    /\ ~modHist.restacked
    /\ modHist.ticks = mod.duration
    /\ ~ModifierIsActive(mod)

\* C11: 0 <= currentStacks <= maxStacks holds for every StatModifier: after
\* construction from any config and after any addStacks and removeStacks
C11_StacksBounded ==
    mod.exists => (0 <= mod.currentStacks /\ mod.currentStacks <= mod.maxStacks)

\* C17: StatModifier.fromJSON(m.toJSON()), run at a later time, has the same
\* id, name, statId, type, value, duration, maxStacks, currentStacks, source,
\* createdAt and remainingDuration as m, for every m reached by construction,
\* addStacks, removeStacks and tick
C17_ModifierRoundTrip ==
    mod.exists => ModifierFromJSONAt(ModifierToJSON(mod), mod.createdAt + 1) = mod

-----------------------------------------------------------------------------
(* ModifierCollection (src/unnamed/part_001).  The Map of modifiers is the  *)
(* sequence of its values in insertion order; values are integers, on which *)
(* the rounding of SafeMath is the identity.                                *)

\* most modifier ids in use at a time
MaxMods == 2

\* the ids modifiers are given
ModIds == {<<"m", Digits[i + 1]>> : i \in 1..MaxMods}

\* new ModifierCollection(statId)
CollNew(statId) == [statId |-> UtilsSanitizeId(statId), modifiers |-> <<>>]

\* position in this.modifiers of the entry with this id, 0 when there is none
CollIndexOf(c, id) ==
    IF \E i \in DOMAIN c.modifiers : c.modifiers[i].id = id
    THEN CHOOSE i \in DOMAIN c.modifiers : c.modifiers[i].id = id
    ELSE 0

\* existing at max stacks: the duration of a timed modifier is refreshed
RefreshDuration(m) ==
    IF m.duration > 0 THEN [m EXCEPT !.remainingDuration = m.duration] ELSE m

CollAdd_NoStack(c, m) ==
    IF m.statId # <<>> /\ m.statId # c.statId
    THEN [coll |-> c, result |-> {}]
    ELSE LET i == CollIndexOf(c, m.id)
             mine == [m EXCEPT !.statId = c.statId]
         IN  IF i # 0
             THEN [coll |-> [c EXCEPT !.modifiers[i] = RefreshDuration(@)],
                   result |-> {RefreshDuration(c.modifiers[i])}]
             ELSE [coll |-> [c EXCEPT !.modifiers = Append(@, mine)], result |-> {mine}]

\* ModifierCollection.add(modifier) of a StatModifier: the collection after
\* the call and what is returned, {} for null, else {the modifier returned}
CollAdd(c, m) ==
    IF m.statId # <<>> /\ m.statId # c.statId
    THEN [coll |-> c, result |-> {}]
    ELSE LET i == CollIndexOf(c, m.id)
             mine == [m EXCEPT !.statId = c.statId]
         IN  IF i # 0
             THEN LET existing == c.modifiers[i]
                      after == IF existing.currentStacks < existing.maxStacks
                               THEN ModifierAddStacks(existing, {1})
                               ELSE RefreshDuration(existing)
                  IN  [coll |-> [c EXCEPT !.modifiers[i] = after], result |-> {after}]
             ELSE [coll |-> [c EXCEPT !.modifiers = Append(@, mine)], result |-> {mine}]

\* ModifierCollection.getActive()
CollGetActive(c) == SelectSeq(c.modifiers, ModifierIsActive)

RECURSIVE CollTickFrom_StopAtFirst(_, _, _)
CollTickFrom_StopAtFirst(ms, kept, removed) ==
    IF ms = <<>>
    THEN [modifiers |-> kept, removed |-> removed]
    ELSE LET t == ModifierTick(Head(ms))
         IN  IF t.active
             THEN CollTickFrom_StopAtFirst(Tail(ms), Append(kept, t.modifier), removed)
             ELSE [modifiers |-> kept \o Tail(ms), removed |-> Append(removed, Head(ms).id)]

\* the loop of ModifierCollection.tick() over the entries left to visit: an
\* entry deleted while the Map is iterated does not disturb the iteration
RECURSIVE CollTickFrom(_, _, _)
CollTickFrom(ms, kept, removed) ==
    IF ms = <<>>
    THEN [modifiers |-> kept, removed |-> removed]
    ELSE LET t == ModifierTick(Head(ms))
         IN  IF t.active
             THEN CollTickFrom(Tail(ms), Append(kept, t.modifier), removed)
             ELSE CollTickFrom(Tail(ms), kept, Append(removed, Head(ms).id))

\* ModifierCollection.tick(): the collection after the call and the ids removed
CollTick(c) ==
    LET done == CollTickFrom(c.modifiers, <<>>, <<>>)
    IN  [coll |-> [c EXCEPT !.modifiers = done.modifiers], result |-> done.removed]

\* modifiers handed to add() in the collection runs: any id, permanent,
\* expired on arrival or timed, two stacks allowed, and a statId that is
\* missing, the collection's or another stat's
CollInputs ==
    {ModifierNew([id |-> {id}, statId |-> statId, type |-> "add", value |-> {10},
                  duration |-> {d}, maxStacks |-> {2}]) :
        id \in ModIds, statId \in {{}, {<<"H", "P">>}, {<<"m", "p">>}},
        d \in {Permanent, 0, 2}}

\* coll.add(m); ret keeps the id and the statId of m and what add returned
CollAddOp(m) ==
    /\ \E done \in {CollAdd(coll, m)} :
          /\ coll' = done.coll
          /\ ret' = [op |-> "add", id |-> m.id, arg |-> m.statId, result |-> done.result]
    /\ UNCHANGED <<mod, modHist, currentState, globalState, settings, message,
                   hostVars, listenerVars>>

\* coll.tick()
CollTickOp ==
    /\ \E done \in {CollTick(coll)} :
          /\ coll' = done.coll
          /\ ret' = [op |-> "tick", id |-> <<>>, arg |-> 0, result |-> done.result]
    /\ UNCHANGED <<mod, modHist, currentState, globalState, settings, message,
                   hostVars, listenerVars>>

\* an empty collection for the stat hp
InitColl ==
    /\ currentState = NoState
    /\ globalState = NoState
    /\ settings = DefaultSettings
    /\ chatMetadata = <<>>
    /\ activeChat = "c1"
    /\ pending = <<>>
    /\ build = "modules"
    /\ presets = NoPresets
    /\ statListeners = <<>>
    /\ stateListeners = <<>>
    /\ calls = <<>>
    /\ ret = NoRet
    /\ message = <<>>
    /\ mod = NoMod
    /\ modHist = <<>>
    /\ coll = CollNew(<<"h", "p">>)

NextColl ==
    \/ \E m \in CollInputs : CollAddOp(m)
    \/ CollTickOp

SpecColl == InitColl /\ [][NextColl]_vars

\* the ids of the entries of a collection
CollIds(c) == {c.modifiers[i].id : i \in DOMAIN c.modifiers}

\* the entry `after` is the entry `before` re-applied: one more stack when it
\* was below maxStacks, the duration of a timed modifier refreshed
Reapplied(before, after) ==
    /\ after = [before EXCEPT !.currentStacks = after.currentStacks,
                              !.remainingDuration = after.remainingDuration]
    /\ after.currentStacks = IF before.currentStacks < before.maxStacks
                             THEN before.currentStacks + 1
                             ELSE before.currentStacks
    /\ after.remainingDuration = IF before.duration > 0
                                 THEN before.duration
                                 ELSE before.remainingDuration

\* the collection d is the collection c after the re-application or the
\* insertion of a modifier of this id
AddRule(c, d, id) ==
    IF id \in CollIds(c)
    THEN /\ Len(d.modifiers) = Len(c.modifiers)
         /\ \A i \in DOMAIN c.modifiers :
               IF c.modifiers[i].id = id
               THEN Reapplied(c.modifiers[i], d.modifiers[i])
               ELSE d.modifiers[i] = c.modifiers[i]
    ELSE /\ Len(d.modifiers) = Len(c.modifiers) + 1
         /\ SubSeq(d.modifiers, 1, Len(c.modifiers)) = c.modifiers
         /\ d.modifiers[Len(d.modifiers)].id = id

\* C12 as stated: every add of a modifier whose id is in the collection
\* re-applies the existing entry and adds none, and every add of a new id
\* inserts it
C12_EveryAddApplies ==
    [][ret'.op = "add" => AddRule(coll, coll', ret'.id)]_vars

\* C12: an add of a modifier that names no stat or the stat of the collection
\* never adds a second entry for an id: the existing entry gets exactly one
\* more stack when below maxStacks, else keeps its stacks, and in both cases a
\* timed one has remainingDuration reset to duration; a new id is inserted and
\* the size changes only then.  An add of a modifier that names another stat
\* returns null and leaves the collection as it was
C12_AcceptedAddApplies ==
    [][ret'.op = "add" =>
          IF ret'.arg = <<>> \/ ret'.arg = coll.statId
          THEN AddRule(coll, coll', ret'.id) /\ ret'.result # {}
          ELSE coll' = coll /\ ret'.result = {}]_vars

\* an add that re-applied a timed modifier next to another entry: it returned
\* the entry with two stacks and the full duration
C12_Witness ==
    /\ ret.op = "add"
    /\ Len(coll.modifiers) = 2
    /\ \E i \in DOMAIN coll.modifiers :
          /\ coll.modifiers[i].id = ret.id
          /\ ret.result = {coll.modifiers[i]}
          /\ coll.modifiers[i].currentStacks = 2
          /\ coll.modifiers[i].duration = 2
          /\ coll.modifiers[i].remainingDuration = 2

\* C16: tick() ticks every modifier of the collection once, removes exactly
\* those whose tick reports inactive and returns exactly their ids; every
\* modifier left is active and no permanent modifier is removed
C16_TickRemovesExpired ==
    [][ret'.op = "tick" =>
          /\ \A i \in DOMAIN coll.modifiers :
                LET m == coll.modifiers[i]
                IN  IF ModifierTick(m).active
                    THEN \E j \in DOMAIN coll'.modifiers :
                            coll'.modifiers[j] = ModifierTick(m).modifier
                    ELSE /\ m.id \notin CollIds(coll')
                         /\ \E j \in DOMAIN ret'.result : ret'.result[j] = m.id
          /\ Len(coll'.modifiers) + Len(ret'.result) = Len(coll.modifiers)
          /\ \A j \in DOMAIN coll'.modifiers : ModifierIsActive(coll'.modifiers[j])
          /\ \A i \in DOMAIN coll.modifiers :
                coll.modifiers[i].duration < 0 => coll.modifiers[i].id \in CollIds(coll')]_vars

\* a tick that removed two modifiers in one pass
C16_Witness ==
    /\ ret.op = "tick"
    /\ Len(ret.result) = 2
    /\ coll.modifiers = <<>>

-----------------------------------------------------------------------------
(* ModifierCollection.applyAll (src/unnamed/part_001)                       *)

ModifierGetEffectiveValue_OverrideStacks(m) == m.value * m.currentStacks

\* StatModifier.getEffectiveValue()
ModifierGetEffectiveValue(m) ==
    IF m.type = "override" THEN m.value ELSE m.value * m.currentStacks

\* overrideMods.reduce((latest, current) =>
\*     current.createdAt > latest.createdAt ? current : latest)
RECURSIVE LatestOverride(_, _)
LatestOverride(ms, latest) ==
    IF ms = <<>>
    THEN latest
    ELSE LatestOverride(Tail(ms), IF Head(ms).createdAt > latest.createdAt
                                  THEN Head(ms)
                                  ELSE latest)

\* for (const mod of addMods) result = SafeMath.add(result, ...)
RECURSIVE AddAll(_, _)
AddAll(ms, result) ==
    IF ms = <<>>
    THEN result
    ELSE AddAll(Tail(ms), result + ModifierGetEffectiveValue(Head(ms)))

\* for (const mod of multiplyMods) result = SafeMath.multiply(result, ...)
RECURSIVE MultiplyAll(_, _)
MultiplyAll(ms, result) ==
    IF ms = <<>>
    THEN result
    ELSE MultiplyAll(Tail(ms), result * ModifierGetEffectiveValue(Head(ms)))

CollApplyAll_MultiplyFirst(c, base) ==
    LET active == CollGetActive(c)
        addMods == SelectSeq(active, LAMBDA m : m.type = "add")
        multiplyMods == SelectSeq(active, LAMBDA m : m.type = "multiply")
        overrideMods == SelectSeq(active, LAMBDA m : m.type = "override")
    IN  IF overrideMods # <<>>
        THEN ModifierGetEffectiveValue(LatestOverride(Tail(overrideMods), Head(overrideMods)))
        ELSE AddAll(addMods, MultiplyAll(multiplyMods, base))

\* ModifierCollection.applyAll(baseValue) of a number
CollApplyAll(c, base) ==
    LET active == CollGetActive(c)
        addMods == SelectSeq(active, LAMBDA m : m.type = "add")
        multiplyMods == SelectSeq(active, LAMBDA m : m.type = "multiply")
        overrideMods == SelectSeq(active, LAMBDA m : m.type = "override")
    IN  IF active = <<>>
        THEN base
        ELSE IF overrideMods # <<>>
             THEN ModifierGetEffectiveValue(LatestOverride(Tail(overrideMods), Head(overrideMods)))
             ELSE MultiplyAll(multiplyMods, AddAll(addMods, base))

\* the value a modifier of this id is given: no two ids share one
ValueOf(id) == 1 + (CHOOSE i \in 1..10 : Digits[i] = id[2])

\* modifiers handed to add() in the applyAll runs: any id and type, one or two
\* of two stacks, permanent or expired on arrival, an override created at one
\* of two times
ApplyInputs ==
    {ModifierNewAt([id |-> {id}, type |-> t, value |-> {ValueOf(id)},
                    duration |-> {d}, maxStacks |-> {2}, currentStacks |-> {k}], now) :
        <<id, t, d, k, now>> \in
            {x \in ModIds \X ModTypes \X {Permanent, 0} \X {1, 2} \X {1, 2} :
                /\ x[2] # "override" => x[5] = 1
                /\ x[3] = 0 => x[4] = 1}}

\* base values applyAll is called with
Bases == {0, 100}

\* coll.applyAll(base)
CollApplyAllOp(base) ==
    /\ ret' = [op |-> "applyAll", id |-> <<>>, arg |-> base,
               result |-> CollApplyAll(coll, base)]
    /\ UNCHANGED <<coll, mod, modHist, currentState, globalState, settings, message,
                   hostVars, listenerVars>>

NextApply ==
    \/ \E m \in ApplyInputs : CollAddOp(m)
    \/ \E base \in Bases : CollApplyAllOp(base)

SpecApply == InitColl /\ [][NextApply]_vars

\* the entries of a collection that are active and of this type
ActiveOf(c, type) ==
    {i \in DOMAIN c.modifiers :
        ModifierIsActive(c.modifiers[i]) /\ c.modifiers[i].type = type}

\* the sum and the product of the effective values of a set of entries
RECURSIVE SumOf(_, _)
SumOf(c, I) ==
    IF I = {}
    THEN 0
    ELSE LET i == CHOOSE i \in I : TRUE
         IN  ModifierGetEffectiveValue(c.modifiers[i]) + SumOf(c, I \ {i})

RECURSIVE ProductOf(_, _)
ProductOf(c, I) ==
    IF I = {}
    THEN 1
    ELSE LET i == CHOOSE i \in I : TRUE
         IN  ModifierGetEffectiveValue(c.modifiers[i]) * ProductOf(c, I \ {i})

\* C13: with no active override, applyAll(base) is (base + the sum of the
\* effective values of the active add modifiers) times the effective value of
\* every active multiply modifier, whatever the insertion order; inactive
\* modifiers contribute nothing
C13_AddThenMultiply ==
    (ret.op = "applyAll" /\ ActiveOf(coll, "override") = {}) =>
        ret.result = (ret.arg + SumOf(coll, ActiveOf(coll, "add")))
                         * ProductOf(coll, ActiveOf(coll, "multiply"))

\* applyAll on a multiply modifier inserted before an add modifier, both
\* active: the add is applied first all the same
C13_Witness ==
    /\ ret.op = "applyAll"
    /\ ret.arg = 100
    /\ Len(coll.modifiers) = 2
    /\ coll.modifiers[1].type = "multiply"
    /\ coll.modifiers[2].type = "add"
    /\ \A i \in 1..2 : ModifierIsActive(coll.modifiers[i])
    /\ ret.result = (100 + ModifierGetEffectiveValue(coll.modifiers[2]))
                        * ModifierGetEffectiveValue(coll.modifiers[1])
    /\ ret.result # 100 * ModifierGetEffectiveValue(coll.modifiers[1])
                        + ModifierGetEffectiveValue(coll.modifiers[2])

\* the active overrides with the latest createdAt
LatestOverrides(c) ==
    {i \in ActiveOf(c, "override") :
        \A j \in ActiveOf(c, "override") :
            c.modifiers[j].createdAt <= c.modifiers[i].createdAt}

\* C14: with an active override, applyAll(base) is the value of an active
\* override of the latest createdAt, whatever base, the add and multiply
\* modifiers and the stacks of the override
C14_LatestOverrideWins ==
    (ret.op = "applyAll" /\ ActiveOf(coll, "override") # {}) =>
        \E i \in LatestOverrides(coll) : ret.result = coll.modifiers[i].value

\* applyAll with two active overrides, the later one inserted first and
\* holding two stacks: its plain value is returned
C14_Witness ==
    /\ ret.op = "applyAll"
    /\ Len(coll.modifiers) = 2
    /\ \A i \in 1..2 : coll.modifiers[i].type = "override" /\ ModifierIsActive(coll.modifiers[i])
    /\ coll.modifiers[1].createdAt > coll.modifiers[2].createdAt
    /\ coll.modifiers[1].currentStacks = 2
    /\ ret.result = coll.modifiers[1].value

\* C15: when several active overrides share the latest createdAt, applyAll
\* returns the value of the one that comes last in insertion order
C15_LastSeenWinsTies ==
    (ret.op = "applyAll" /\ Cardinality(LatestOverrides(coll)) >= 2) =>
        \E i \in LatestOverrides(coll) :
            /\ \A j \in LatestOverrides(coll) : j <= i
            /\ ret.result = coll.modifiers[i].value

-----------------------------------------------------------------------------
(* StatParser of the bundle (src/index.js) with the default configuration.  *)
(* Numbers in texts are integers: no text of the model holds a "." or an    *)
(* exponent.                                                                 *)

OpenTag == <<"{", "{">>
CloseTag == <<"}", "}">>
Separator == ":"

\* text.startsWith(tag, i), 1-based
StartsWithAt(text, tag, i) ==
    /\ i + Len(tag) - 1 <= Len(text)
    /\ SubSeq(text, i, i + Len(tag) - 1) = tag

\* String.prototype.indexOf(c), 1-based; 0 when absent
IndexOf(s, c) ==
    IF c \in Range(s) THEN CHOOSE i \in DOMAIN s : s[i] = c /\ \A j \in 1..(i - 1) : s[j] # c
    ELSE 0

DigitValue(c) == (CHOOSE i \in DOMAIN Digits : Digits[i] = c) - 1

\* the index after the run of characters of the set S that starts at i
RECURSIVE SkipWhile(_, _, _)
SkipWhile(text, i, S) ==
    IF i <= Len(text) /\ text[i] \in S THEN SkipWhile(text, i + 1, S) ELSE i

\* the value of a non-empty string of digits
RECURSIVE DigitsValue(_)
DigitsValue(ds) ==
    IF ds = <<>> THEN 0
    ELSE 10 * DigitsValue(SubSeq(ds, 1, Len(ds) - 1)) + DigitValue(ds[Len(ds)])

\* parseFloat(str): leading whitespace, one optional sign, the longest run of
\* digits; {} is NaN
parseFloat(str) ==
    LET t == trimStart(str)
        signed == t # <<>> /\ t[1] \in {"+", "-"}
        from == IF signed THEN 2 ELSE 1
        to == SkipWhile(t, from, Range(Digits))
        n == DigitsValue(SubSeq(t, from, to - 1))
    IN  IF to = from THEN {}
        ELSE IF signed /\ t[1] = "-" THEN {0 - n} ELSE {n}

\* one candidate of the bundle's pattern {{([^}]+)}} at i: the index after the
\* match, 0 when the pattern does not match at i
BundleMatchEnd(text, i) ==
    LET from == i + Len(OpenTag)
        to == SkipWhile(text, from, Range(text) \ {CloseTag[1]})
    IN  IF StartsWithAt(text, OpenTag, i) /\ to > from /\ StartsWithAt(text, CloseTag, to)
        THEN to + Len(CloseTag)
        ELSE 0

\* the body of the while loop of parseValid for match[1] = content: the
\* commands it pushes (none or one)
BundleCommand(content) ==
    LET c == trim(content)
        sepIndex == IndexOf(c, Separator)
        statId == trim(SubSeq(c, 1, sepIndex - 1))
        valueStr == trim(SubSeq(c, sepIndex + 1, Len(c)))
        isSet == valueStr # <<>> /\ valueStr[1] = "="
        value == parseFloat(IF isSet THEN Tail(valueStr) ELSE valueStr)
    IN  IF sepIndex = 0 THEN <<>>
        ELSE IF statId = <<>> \/ valueStr = <<>> THEN <<>>
        ELSE IF value = {} THEN <<>>
        ELSE << [ statId |-> toLowerCase(statId),
                  value  |-> CHOOSE n \in value : TRUE,
                  type   |-> IF isSet THEN "set" ELSE "modify" ] >>

\* StatParser.parseValid(text) of the bundle, scanning from i
RECURSIVE BundleParseFrom(_, _)
BundleParseFrom(text, i) ==
    IF i > Len(text) THEN <<>>
    ELSE LET e == BundleMatchEnd(text, i)
         IN  IF e = 0 THEN BundleParseFrom(text, i + 1)
             ELSE BundleCommand(SubSeq(text, i + Len(OpenTag), e - Len(CloseTag) - 1))
                      \o BundleParseFrom(text, e)

BundleParseValid(text) == BundleParseFrom(text, 1)

-----------------------------------------------------------------------------
(* StatParser of the modules (src/unnamed/part_000), default configuration *)

Whitespace == {" ", "\t", "\n"}

Letters == Range(UpperCase) \cup Range(LowerCase)

\* i + 1 when text[i] is in S, else i: an optional character
SkipOne(text, i, S) == IF i <= Len(text) /\ text[i] \in S THEN i + 1 ELSE i

\* _buildPattern: the pattern
\*   {{ \s* ([a-zA-Z_][a-zA-Z0-9_-]*) \s* : \s* ([=+-]? \s* -? [0-9]+ (\.[0-9]+)?) \s* }}
\* tried at i.  Every quantifier is followed by a character outside its class,
\* so the greedy reading is the only one.  end = 0 when there is no match.
ModulesMatchAt(text, i) ==
    LET idFrom == SkipWhile(text, i + Len(OpenTag), Whitespace)
        idTo == IF idFrom <= Len(text) /\ text[idFrom] \in Letters \cup {"_"}
                THEN SkipWhile(text, idFrom + 1, Letters \cup Range(Digits) \cup {"_", "-"})
                ELSE idFrom
        sepAt == SkipWhile(text, idTo, Whitespace)
        valFrom == SkipWhile(text, sepAt + 1, Whitespace)
        afterOp == SkipOne(text, valFrom, {"=", "+", "-"})
        afterSign == SkipOne(text, SkipWhile(text, afterOp, Whitespace), {"-"})
        intTo == SkipWhile(text, afterSign, Range(Digits))
        fracTo == IF StartsWithAt(text, <<".">>, intTo)
                      /\ SkipWhile(text, intTo + 1, Range(Digits)) > intTo + 1
                  THEN SkipWhile(text, intTo + 1, Range(Digits))
                  ELSE intTo
        closeAt == SkipWhile(text, fracTo, Whitespace)
        ok == /\ StartsWithAt(text, OpenTag, i)
              /\ idTo > idFrom
              /\ StartsWithAt(text, <<Separator>>, sepAt)
              /\ intTo > afterSign
              /\ StartsWithAt(text, CloseTag, closeAt)
    IN  IF ok
        THEN [end |-> closeAt + Len(CloseTag),
              statId |-> SubSeq(text, idFrom, idTo - 1),
              valueStr |-> SubSeq(text, valFrom, fracTo - 1)]
        ELSE [end |-> 0, statId |-> <<>>, valueStr |-> <<>>]

\* Number(str) for the strings the pattern lets through: one optional sign and
\* digits, nothing else; {} is NaN
JSNumber(str) ==
    LET signed == str # <<>> /\ str[1] \in {"+", "-"}
        ds == IF signed THEN Tail(str) ELSE str
        n == DigitsValue(ds)
    IN  IF ds = <<>> \/ Range(ds) \ Range(Digits) # {} THEN {}
        ELSE IF signed /\ str[1] = "-" THEN {0 - n} ELSE {n}

\* .replace(/\s/g, '')
RemoveWhitespace(s) == SelectSeq(s, LAMBDA c : c \notin Whitespace)

\* StatParser._parseCommand(raw, statId, valueStr)
ModulesParseCommand(statId, valueStr) ==
    LET trimmedValue == RemoveWhitespace(valueStr)
        isSet == trimmedValue # <<>> /\ trimmedValue[1] = "="
        value == IF trimmedValue = <<>> THEN {}
                 ELSE JSNumber(IF isSet THEN Tail(trimmedValue) ELSE trimmedValue)
    IN  IF ~isNonEmptyString(statId)
        THEN [statId |-> <<>>, value |-> 0, type |-> "invalid", isValid |-> FALSE]
        ELSE IF value = {}
        THEN [statId |-> toLowerCase(trim(statId)), value |-> 0, type |-> "invalid",
              isValid |-> FALSE]
        ELSE [statId |-> toLowerCase(trim(statId)), value |-> CHOOSE n \in value : TRUE,
              type |-> IF isSet THEN "set" ELSE "modify", isValid |-> TRUE]

\* StatParser.parse(text) of the modules, scanning from i
RECURSIVE ModulesParseFrom(_, _)
ModulesParseFrom(text, i) ==
    IF i > Len(text) THEN <<>>
    ELSE LET m == ModulesMatchAt(text, i)
         IN  IF m.end = 0 THEN ModulesParseFrom(text, i + 1)
             ELSE <<ModulesParseCommand(m.statId, m.valueStr)>> \o ModulesParseFrom(text, m.end)

ModulesParse(text) == IF isNonEmptyString(text) THEN ModulesParseFrom(text, 1) ELSE <<>>

\* StatParser.parseValid(text) of the modules, as the commands processMessage reads
ModulesParseValid(text) ==
    LET valid == SelectSeq(ModulesParse(text), LAMBDA c : c.isValid)
    IN  [k \in DOMAIN valid |->
            [statId |-> valid[k].statId, value |-> valid[k].value, type |-> valid[k].type]]

-----------------------------------------------------------------------------
(* The texts of the model *)

\* a text is made of at most MaxPieces pieces
MaxPieces == 2

\* "{{hp:-10}}", "{{hp:-20}}" and "{{mp:-30}}{{ HP : =50 }}{{hp:+-20}}{{hp}}":
\* two commands on one stat; a command on another stat followed by a padded
\* set command, a doubly signed value and a token with no value
Pieces ==
    << <<"{", "{", "h", "p", ":", "-", "1", "0", "}", "}">>,
       <<"{", "{", "h", "p", ":", "-", "2", "0", "}", "}">>,
       <<"{", "{", "m", "p", ":", "-", "3", "0", "}", "}",
         "{", "{", " ", "H", "P", " ", ":", " ", "=", "5", "0", " ", "}", "}",
         "{", "{", "h", "p", ":", "+", "-", "2", "0", "}", "}",
         "{", "{", "h", "p", "}", "}">> >>

RECURSIVE Concat(_, _)
Concat(ps, k) == IF k > Len(ps) THEN <<>> ELSE Pieces[ps[k]] \o Concat(ps, k + 1)

Messages == {Concat(ps, 1) : ps \in UNION {[1..n -> DOMAIN Pieces] : n \in 0..MaxPieces}}

\* parseValid of either build on every text of the model, computed once
BundleTable == [text \in Messages |-> BundleParseValid(text)]

ModulesTable == [text \in Messages |-> ModulesParseValid(text)]

-----------------------------------------------------------------------------
(* StateManager.processMessage *)

\* the commands processMessage gets from this.parser.parseValid(message)
ParseValid(text) == IF build = "bundle" THEN BundleTable[text] ELSE ModulesTable[text]

\* the state of the for loop of processMessage before any command
LoopStart(stats) == [stats |-> stats, changes |-> <<>>, calls |-> <<>>, escaped |-> FALSE]

\* stat.set(cmd.value) or stat.modify(cmd.value), by the command's type
ApplyCommand(stat, cmd) ==
    IF cmd.type = "set" THEN StatSet(stat, cmd.value) ELSE StatModify(stat, cmd.value)

\* the rest of an iteration once the stat call has returned r and the
\* listeners have been notified with outcome n
Applied(acc, cmd, r, n) ==
    [ stats   |-> [acc.stats EXCEPT ![r.stat.id] = r.stat],
      changes |-> Append(acc.changes,
                         [statId |-> cmd.statId, success |-> TRUE,
                          oldValue |-> r.result.oldValue,
                          newValue |-> r.result.newValue,
                          actualChange |-> r.result.actualChange,
                          commandType |-> cmd.type]),
      calls   |-> acc.calls \o n.calls,
      escaped |-> n.escaped ]

ProcessCommand_FirstWins(acc, cmd) ==
    IF \E k \in DOMAIN acc.changes : acc.changes[k].statId = cmd.statId
    THEN acc
    ELSE IF ~ManagerHas(acc.stats, cmd.statId)
    THEN [acc EXCEPT !.changes = Append(@, [statId |-> cmd.statId, success |-> FALSE,
                                            error |-> "Stat not found"])]
    ELSE LET r == ApplyCommand(ManagerGet(acc.stats, cmd.statId), cmd)
         IN  Applied(acc, cmd, r, [calls |-> <<>>, escaped |-> FALSE])

ProcessCommand_AbortOnMissing(acc, cmd) ==
    IF acc.escaped \/ ~ManagerHas(acc.stats, cmd.statId)
    THEN [acc EXCEPT !.escaped = TRUE]
    ELSE LET r == ApplyCommand(ManagerGet(acc.stats, cmd.statId), cmd)
         IN  Applied(acc, cmd, r, [calls |-> <<>>, escaped |-> FALSE])

\* one iteration of the for loop of processMessage; once an exception has
\* left the loop nothing more runs
ProcessCommand(acc, cmd) ==
    IF acc.escaped THEN acc
    ELSE IF ~ManagerHas(acc.stats, cmd.statId)
    THEN [acc EXCEPT !.changes = Append(@, [statId |-> cmd.statId, success |-> FALSE,
                                            error |-> "Stat not found"])]
    ELSE LET r == ApplyCommand(ManagerGet(acc.stats, cmd.statId), cmd)
         IN  Applied(acc, cmd, r,
                     Notify(statListeners, [stat |-> r.stat.id, result |-> r.result]))

\* the for loop of processMessage over the commands from the k-th on
RECURSIVE ProcessCommands(_, _, _)
ProcessCommands(acc, commands, k) ==
    IF k > Len(commands) THEN acc
    ELSE ProcessCommands(ProcessCommand(acc, commands[k]), commands, k + 1)

\* the body of StateManager.processMessage(message)
ProcessMessageBody(text) ==
    /\ message' = text
    /\ IF ActiveState.id = "none"
       THEN /\ ret' = [NoRet EXCEPT !.op = "processMessage",
                         !.result = [success |-> FALSE, error |-> "No active state",
                                     changes |-> <<>>, threw |-> FALSE]]
            /\ UNCHANGED <<currentState, globalState, calls>>
       ELSE IF ~settings.enabled
       THEN /\ ret' = [NoRet EXCEPT !.op = "processMessage",
                         !.result = [success |-> TRUE, changes |-> <<>>,
                                     disabled |-> TRUE, threw |-> FALSE]]
            /\ UNCHANGED <<currentState, globalState, calls>>
       ELSE LET commands == ParseValid(text)
            IN  \E done \in {ProcessCommands(LoopStart(ActiveState.stats), commands, 1)} :
                /\ UpdateActive([ActiveState EXCEPT !.stats = done.stats])
                /\ calls' = done.calls
                /\ ret' = [NoRet EXCEPT !.op = "processMessage",
                             !.result = [success |-> ~done.escaped,
                                         changes |-> done.changes,
                                         commandCount |-> Len(commands),
                                         threw |-> done.escaped]]

\* a call of StateManager.processMessage(message)
ProcessMessage(text) ==
    /\ ProcessMessageBody(text)
    /\ UNCHANGED <<settings, hostVars, statListeners, stateListeners, modVars>>

-----------------------------------------------------------------------------
(* StatParser.getStatChanges and the message specification *)

GetStatChangesFrom_LastWins(changes, commands, k) ==
    [id \in {commands[j].statId : j \in k..Len(commands)} \cup DOMAIN changes |->
        IF \E j \in k..Len(commands) : commands[j].statId = id
        THEN commands[CHOOSE j \in k..Len(commands) :
                          /\ commands[j].statId = id
                          /\ \A i \in (j + 1)..Len(commands) : commands[i].statId # id]
        ELSE changes[id]]

\* the for loop of StatParser.getStatChanges over the commands from the k-th on
RECURSIVE GetStatChangesFrom(_, _, _)
GetStatChangesFrom(changes, commands, k) ==
    IF k > Len(commands) THEN changes
    ELSE IF commands[k].statId \notin DOMAIN changes
    THEN GetStatChangesFrom(MapSet(changes, commands[k].statId, commands[k]), commands, k + 1)
    ELSE GetStatChangesFrom(changes, commands, k + 1)

\* StatParser.getStatChanges(text) of the modules
GetStatChanges(text) == GetStatChangesFrom(EmptyStats, ModulesTable[text], 1)

\* a call of getStatChanges(text)
StatChanges(text) ==
    /\ build = "modules"
    /\ message' = text
    /\ ret' = [NoRet EXCEPT !.op = "getStatChanges", !.result = GetStatChanges(text)]
    /\ UNCHANGED <<currentState, globalState, settings, hostVars, listenerVars, modVars>>

HpStat == StatNew([id |-> <<"h", "p">>, baseValue |-> {100}, currentValue |-> {},
                   minValue |-> {60}, maxValue |-> {100}])

MpStat == StatNew([id |-> <<"m", "p">>, baseValue |-> {50}, currentValue |-> {},
                   minValue |-> {30}, maxValue |-> {50}])

\* a chat whose state holds the stat hp, or hp and mp; either build
InitMsg ==
    /\ currentState \in
          { [NewState("sim") EXCEPT !.stats = ManagerAdd(@, HpStat)],
            [NewState("sim") EXCEPT !.stats = ManagerAdd(ManagerAdd(@, HpStat), MpStat)] }
    /\ globalState = NewGlobalState
    /\ settings = DefaultSettings
    /\ chatMetadata = <<>>
    /\ activeChat = "c1"
    /\ pending = <<>>
    /\ build \in {"bundle", "modules"}
    /\ presets = NoPresets
    /\ statListeners = <<>>
    /\ stateListeners = <<>>
    /\ calls = <<>>
    /\ ret = NoRet
    /\ message = <<>>
    /\ mod = NoMod
    /\ modHist = <<>>
    /\ coll = NoColl

NextMsg ==
    \/ \E text \in Messages : ProcessMessage(text)
    \/ \E text \in Messages : StatChanges(text)

SpecMsg == InitMsg /\ [][NextMsg]_vars

-----------------------------------------------------------------------------
(* Claims on processMessage and getStatChanges *)

\* a step that is a call of processMessage which reached its for loop
IsProcessed == ret'.op = "processMessage" /\ ActiveState.id # "none" /\ settings.enabled

\* the value a stat holding value v within [lo, hi] ends with when every
\* command of cmds from the k-th on that names it is applied in turn
RECURSIVE ValueAfter(_, _, _, _, _, _)
ValueAfter(v, lo, hi, id, cmds, k) ==
    IF k > Len(cmds) THEN v
    ELSE IF sanitizeId(cmds[k].statId) # id THEN ValueAfter(v, lo, hi, id, cmds, k + 1)
    ELSE ValueAfter(MathMax(lo, MathMin(hi, IF cmds[k].type = "set" THEN cmds[k].value
                                            ELSE v + cmds[k].value)),
                    lo, hi, id, cmds, k + 1)

\* C5: processMessage applies every valid command of the text, in textual
\* order and with no de-duplication: each stat ends with the value obtained by
\* applying, one after the other, all the commands that name it, each clamped
C5_EveryCommandInOrder ==
    [][IsProcessed =>
          \A id \in DOMAIN ActiveState.stats :
              ActiveState'.stats[id].currentValue =
                  ValueAfter(ActiveState.stats[id].currentValue,
                             ActiveState.stats[id].minValue,
                             ActiveState.stats[id].maxValue,
                             id, ParseValid(message'), 1)]_vars

\* "{{hp:-10}}{{hp:-20}}" processed on hp = 100: both applied, 100 -> 90 -> 70
C5_Witness ==
    /\ ret.op = "processMessage"
    /\ message = Pieces[1] \o Pieces[2]
    /\ Len(ret.result.changes) = 2
    /\ ret.result.changes[1].oldValue = 100
    /\ ret.result.changes[1].newValue = 90
    /\ ret.result.changes[2].oldValue = 90
    /\ ret.result.changes[2].newValue = 70
    /\ ActiveState.stats[<<"h", "p">>].currentValue = 70

\* the first command of commands that names statId
FirstFor(commands, statId) ==
    commands[CHOOSE j \in DOMAIN commands :
                 /\ commands[j].statId = statId
                 /\ \A i \in 1..(j - 1) : commands[i].statId # statId]

\* C6: getStatChanges keeps, for each stat id, the first valid command of the
\* text that names it, and its keys are the ids of parseValid(text)
C6_FirstMatchWins ==
    ret.op = "getStatChanges" =>
        LET commands == ModulesTable[message]
        IN  /\ DOMAIN ret.result = {commands[j].statId : j \in DOMAIN commands}
            /\ \A id \in DOMAIN ret.result : ret.result[id] = FirstFor(commands, id)

\* getStatChanges of a text with two different valid commands on one id
\* returned the earlier one
C6_Witness ==
    /\ ret.op = "getStatChanges"
    /\ \E i, j \in DOMAIN ModulesTable[message] :
          /\ i < j
          /\ ModulesTable[message][i].statId = ModulesTable[message][j].statId
          /\ ModulesTable[message][i] # ModulesTable[message][j]
          /\ ret.result[ModulesTable[message][i].statId] = ModulesTable[message][i]
          /\ \A k \in 1..(i - 1) :
                ModulesTable[message][k].statId # ModulesTable[message][i].statId

\* C7: a command on a stat that does not exist gives a failure entry, creates
\* and changes nothing, and the commands after it are still applied; the call
\* succeeds and returns one entry per valid command
C7_MissingStatSkipped ==
    [][IsProcessed =>
          LET commands == ParseValid(message')
              changes == ret'.result.changes
          IN  /\ ret'.result.success
              /\ ret'.result.commandCount = Len(commands)
              /\ Len(changes) = Len(commands)
              /\ DOMAIN ActiveState'.stats = DOMAIN ActiveState.stats
              /\ \A k \in DOMAIN commands :
                    /\ changes[k].statId = commands[k].statId
                    /\ changes[k].success = ManagerHas(ActiveState.stats, commands[k].statId)
                    /\ ~changes[k].success => changes[k].error = "Stat not found"
              /\ \A id \in DOMAIN ActiveState.stats :
                    (\A k \in DOMAIN commands : sanitizeId(commands[k].statId) # id)
                        => ActiveState'.stats[id] = ActiveState.stats[id]]_vars

\* a command on the missing stat mp was answered with a failure entry and the
\* command on hp after it was applied
C7_Witness ==
    /\ ret.op = "processMessage"
    /\ ret.result.success
    /\ <<"m", "p">> \notin DOMAIN ActiveState.stats
    /\ \E k \in DOMAIN ret.result.changes :
          /\ k < Len(ret.result.changes)
          /\ ~ret.result.changes[k].success
          /\ ret.result.changes[k].statId = <<"m", "p">>
          /\ ret.result.changes[k + 1].success
          /\ sanitizeId(ret.result.changes[k + 1].statId) = <<"h", "p">>
          /\ ret.result.changes[k + 1].actualChange # 0

-----------------------------------------------------------------------------
(* Change listeners: onStatChange, onStateChange and the dispatch to them *)

\* listeners a list may hold in the model
MaxListeners == 2

\* what is passed to onStatChange / onStateChange: a function that returns, a
\* function that throws, or something that is not a function
ListenerKinds == {"ok", "throws", "notfn"}

\* StateManager.onStatChange(listener)
OnStatChange(kind) ==
    /\ Len(statListeners) < MaxListeners
    /\ statListeners' = IF kind = "notfn" THEN statListeners ELSE Append(statListeners, kind)
    /\ calls' = <<>>
    /\ ret' = [NoRet EXCEPT !.op = "onStatChange"]
    /\ UNCHANGED <<currentState, globalState, settings, hostVars, stateListeners,
                   message, modVars>>

\* StateManager.onStateChange(listener)
OnStateChange(kind) ==
    /\ Len(stateListeners) < MaxListeners
    /\ stateListeners' = IF kind = "notfn" THEN stateListeners ELSE Append(stateListeners, kind)
    /\ calls' = <<>>
    /\ ret' = [NoRet EXCEPT !.op = "onStateChange"]
    /\ UNCHANGED <<currentState, globalState, settings, hostVars, statListeners,
                   message, modVars>>

\* the texts of a single piece
ShortMessages == {Pieces[i] : i \in DOMAIN Pieces}

\* a chat whose state holds the stat hp, and no listener yet
InitListen ==
    /\ currentState = [NewState("sim") EXCEPT !.stats = ManagerAdd(@, HpStat)]
    /\ globalState = NewGlobalState
    /\ settings = DefaultSettings
    /\ chatMetadata = <<>>
    /\ activeChat = "c1"
    /\ pending = <<>>
    /\ build = "bundle"
    /\ presets = NoPresets
    /\ statListeners = <<>>
    /\ stateListeners = <<>>
    /\ calls = <<>>
    /\ ret = NoRet
    /\ message = <<>>
    /\ mod = NoMod
    /\ modHist = <<>>
    /\ coll = NoColl

NextListen ==
    \/ \E kind \in ListenerKinds : OnStatChange(kind)
    \/ \E kind \in ListenerKinds : OnStateChange(kind)
    \/ \E text \in ShortMessages : ProcessMessage(text)
    \/ Tick
    \/ Reset

SpecListen == InitListen /\ [][NextListen]_vars

\* every listener of the list called once, in order, with the event
CalledAll(listeners, event) ==
    [i \in 1..Len(listeners) |-> [listener |-> i, event |-> event]]

IsSuccess(change) == change.success

\* C8: a listener that throws stops neither the listeners after it nor the
\* operation: on tick, reset and processMessage every registered listener is
\* called for every event, the mutation is in place and the call returns
C8_ListenersIsolated ==
    [][/\ ret'.op = "tick" =>
            /\ ~ret'.result.threw
            /\ ActiveState'.turnCount = ActiveState.turnCount + 1
            /\ calls' = CalledAll(stateListeners,
                                  [type |-> "tick", turn |-> ActiveState'.turnCount])
       /\ ret'.op = "reset" =>
            /\ ~ret'.result.threw
            /\ ActiveState' = StateReset(ActiveState)
            /\ calls' = CalledAll(stateListeners, [type |-> "reset"])
       /\ ret'.op = "processMessage" =>
            LET done == SelectSeq(ret'.result.changes, IsSuccess)
                n == Len(statListeners)
            IN  /\ ~ret'.result.threw
                /\ ret'.result.success
                /\ Len(ret'.result.changes) = Len(ParseValid(message'))
                /\ \A id \in DOMAIN ActiveState.stats :
                      ActiveState'.stats[id].currentValue =
                          ValueAfter(ActiveState.stats[id].currentValue,
                                     ActiveState.stats[id].minValue,
                                     ActiveState.stats[id].maxValue,
                                     id, ParseValid(message'), 1)
                /\ Len(calls') = Len(done) * n
                /\ \A k \in 1..Len(done) : \A i \in 1..n :
                      calls'[(k - 1) * n + i] =
                          [listener |-> i,
                           event |-> [stat |-> sanitizeId(done[k].statId),
                                      result |-> Result(done[k].oldValue, done[k].newValue,
                                                        done[k].actualChange)]]]_vars

\* a stat change was dispatched to a listener that throws and then to the
\* listener registered after it, and processMessage returned its result
C8_Witness ==
    /\ ret.op = "processMessage"
    /\ ret.result.success
    /\ statListeners = <<"throws", "ok">>
    /\ Len(calls) >= 2
    /\ calls[1].listener = 1
    /\ calls[2].listener = 2
    /\ calls[2].event = calls[1].event
    /\ calls[1].event.result.actualChange # 0

-----------------------------------------------------------------------------
(* The event handlers onMessageReceived and onChatChanged, and persistence *)

\* message handlers that may be suspended at their await at one time
MaxPending == 2

\* the chats of the host
Chats == {"c1", "c2"}

\* Stat.toJSON()
StatToJSON(s) ==
    [ id |-> s.id, name |-> {s.name}, baseValue |-> {s.baseValue},
      currentValue |-> {s.currentValue}, minValue |-> {s.minValue},
      maxValue |-> {s.maxValue}, displayMode |-> {s.displayMode} ]

\* Stat.fromJSON(data): new Stat(data) reads a field of null and throws
StatFromJSON(data) ==
    IF "kind" \in DOMAIN data /\ data.kind = "null"
    THEN [threw |-> TRUE]
    ELSE [threw |-> FALSE, stat |-> StatNew(data)]

\* the values of a Map as an array
RECURSIVE MapValues(_)
MapValues(m) ==
    IF DOMAIN m = {}
    THEN <<>>
    ELSE LET k == CHOOSE k \in DOMAIN m : TRUE
         IN  <<m[k]>> \o MapValues(MapDelete(m, k))

\* StatManager.toJSON()
ManagerToJSON(stats) ==
    LET all == MapValues(stats)
    IN  [stats |-> Array([i \in DOMAIN all |-> StatToJSON(all[i])])]

\* the loop of StatManager.fromJSON over the entries left: the stats set so
\* far and whether Stat.fromJSON threw
RECURSIVE ManagerLoad(_, _)
ManagerLoad(entries, stats) ==
    IF entries = <<>>
    THEN [stats |-> stats, threw |-> FALSE]
    ELSE LET made == StatFromJSON(Head(entries))
         IN  IF made.threw
             THEN [stats |-> stats, threw |-> TRUE]
             ELSE ManagerLoad(Tail(entries), ManagerAdd(stats, made.stat))

\* StatManager.fromJSON(data): the stats of the manager when the call ends
\* and whether it ended by an exception
ManagerFromJSON(data) ==
    IF isPlainObject(data) /\ "stats" \in DOMAIN data /\ IsArray(data.stats)
    THEN ManagerLoad(data.stats.items, EmptyStats)
    ELSE [stats |-> EmptyStats, threw |-> FALSE]

\* SimulationState.toJSON()
StateToJSON(st) ==
    [ id |-> st.id, name |-> st.name, turnCount |-> st.turnCount,
      statManager |-> ManagerToJSON(st.stats) ]

StateFromJSON_LoseTurnCount(data) ==
    LET loaded == ManagerFromJSON(data.statManager)
    IN  [ threw |-> loaded.threw,
          state |-> [ id |-> data.id, name |-> data.name, turnCount |-> 0,
                      stats |-> loaded.stats ] ]

\* SimulationState.fromJSON(data): the state built and whether the call ended
\* by an exception; a missing name or turnCount is no field of data, a falsy
\* statManager is a value that is no object
StateFromJSON(data) ==
    IF ~isPlainObject(data)
    THEN [threw |-> FALSE, state |-> NewState("sim")]
    ELSE LET loaded == IF "statManager" \in DOMAIN data
                       THEN ManagerFromJSON(data.statManager)
                       ELSE [stats |-> EmptyStats, threw |-> FALSE]
         IN  [ threw |-> loaded.threw,
               state |-> [ id        |-> Field(data, "id", "sim"),
                           name      |-> Field(data, "name", "Loaded Simulation"),
                           turnCount |-> Field(data, "turnCount", 0),
                           stats     |-> loaded.stats ] ]

\* the state of a chat with no stored state, bundle build
InitRound ==
    /\ currentState = NewState("sim")
    /\ globalState = NewGlobalState
    /\ settings = DefaultSettings
    /\ chatMetadata = <<>>
    /\ activeChat = "c1"
    /\ pending = <<>>
    /\ build = "bundle"
    /\ presets = NoPresets
    /\ statListeners = <<>>
    /\ stateListeners = <<>>
    /\ calls = <<>>
    /\ ret = NoRet
    /\ message = <<>>
    /\ mod = NoMod
    /\ modHist = <<>>
    /\ coll = NoColl

\* stats are added by /simadd and by the dialog, then modified, set, ticked
\* and reset
NextRound ==
    \/ \E n \in StatNames, m \in Opt({50}) : SimAdd(n, m, {})
    \/ \E n \in StatNames, c \in {0 - 50, 100} : AddStatDialog(n, c, 0, 50)
    \/ \E n \in StatNames, d \in Deltas : SimMod(n, d)
    \/ \E n \in StatNames, v \in Deltas : SimSet(n, v)
    \/ Tick
    \/ SimReset

SpecRound == InitRound /\ [][NextRound]_vars

\* C18: SimulationState.fromJSON(state.toJSON()) has the id, name and
\* turnCount of the state and the same stats, each with the same id, name,
\* baseValue, currentValue, minValue, maxValue and displayMode, for every
\* state reached by adding stats and by modify, set, tick and reset
C18_StateRoundTrip ==
    \A st \in {currentState, globalState} :
        LET copy == StateFromJSON(StateToJSON(st))
        IN  /\ ~copy.threw
            /\ copy.state.id = st.id
            /\ copy.state.name = st.name
            /\ copy.state.turnCount = st.turnCount
            /\ DOMAIN copy.state.stats = DOMAIN st.stats
            /\ \A k \in DOMAIN st.stats :
                  \A f \in {"id", "name", "baseValue", "currentValue", "minValue",
                            "maxValue", "displayMode"} :
                      copy.state.stats[k][f] = st.stats[k][f]

\* a state that has counted turns and holds a named stat shown as a bar whose
\* value was changed away from its base value
C18_Witness ==
    /\ currentState.turnCount = MaxTurns
    /\ \E k \in DOMAIN currentState.stats :
          /\ currentState.stats[k].name = <<"H", "P">>
          /\ currentState.stats[k].displayMode = "bar"
          /\ currentState.stats[k].currentValue # currentState.stats[k].baseValue
          /\ currentState.stats[k].lastChange # 0

\* chatMetadata[MODULE_NAME] of the chat the host shows
Persisted == chatMetadata[activeChat]

\* StatParser.hasCommands(text) of the bundle and of the modules
BundleHasCommands(text) == \E i \in DOMAIN text : BundleMatchEnd(text, i) # 0

ModulesHasCommands(text) ==
    isNonEmptyString(text) /\ \E i \in DOMAIN text : ModulesMatchAt(text, i).end # 0

HasCommands(text) ==
    IF build = "bundle" THEN BundleHasCommands(text) ELSE ModulesHasCommands(text)

\* the sequence without its i-th element
RemoveAt(seq, i) == SubSeq(seq, 1, i - 1) \o SubSeq(seq, i + 1, Len(seq))

MsgReceived_TickFirst(text, isUser) ==
    /\ ~isUser /\ HasCommands(text) /\ settings.enabled
    /\ ActiveState.turnCount < MaxTurns
    /\ message' = text
    /\ \E done \in {ProcessCommands(LoopStart(ActiveState.stats), ParseValid(text), 1)} :
          /\ Len(done.changes) > 0
          /\ UpdateActive([ActiveState EXCEPT !.stats = done.stats, !.turnCount = @ + 1])
          /\ calls' = done.calls
          /\ ret' = [NoRet EXCEPT !.op = "tick",
                       !.result = [success |-> TRUE, turn |-> ActiveState.turnCount + 1,
                                   threw |-> FALSE]]
    /\ chatMetadata' = [chatMetadata EXCEPT ![activeChat] = StateToJSON(currentState')]
    /\ UNCHANGED <<settings, activeChat, pending, build, presets, statListeners, stateListeners,
                   modVars>>

\* onMessageReceived(messageIndex) up to its await: the message is processed
\* and, when it gave changes, saveState writes chatMetadata[MODULE_NAME] and the
\* handler is suspended on saveMetadata()
MsgReceived(text, isUser) ==
    /\ Len(pending) < MaxPending
    /\ IF isUser \/ ~HasCommands(text)
       THEN /\ message' = text
            /\ ret' = [NoRet EXCEPT !.op = "onMessageReceived"]
            /\ UNCHANGED <<currentState, globalState, calls, chatMetadata, pending>>
       ELSE /\ ProcessMessageBody(text)
            /\ IF ret'.result.success /\ Len(ret'.result.changes) > 0
               THEN /\ chatMetadata' = [chatMetadata EXCEPT
                                           ![activeChat] = StateToJSON(currentState')]
                    /\ pending' = Append(pending, [chat |-> activeChat])
               ELSE UNCHANGED <<chatMetadata, pending>>
    /\ UNCHANGED <<settings, activeChat, build, presets, statListeners, stateListeners, modVars>>

\* onMessageReceived after its await: the save of the i-th suspended handler
\* has completed and the handler calls stateManager.tick()
SaveDone(i) ==
    /\ i \in DOMAIN pending
    /\ pending' = RemoveAt(pending, i)
    /\ TickBody
    /\ UNCHANGED <<settings, chatMetadata, activeChat, build, presets, statListeners,
                   stateListeners, message, modVars>>

\* onChatChanged(): the host shows the chat and stateManager.initialize(context)
\* loads the chat's state; no global state is ever stored, so a new one is made
ChatChanged(chat) ==
    /\ activeChat' = chat
    /\ currentState' = IF chatMetadata[chat].id # "none"
                       THEN StateFromJSON(chatMetadata[chat]).state
                       ELSE NewState("sim")
    /\ globalState' = NewGlobalState
    /\ calls' = <<>>
    /\ ret' = [NoRet EXCEPT !.op = "onChatChanged"]
    /\ UNCHANGED <<settings, chatMetadata, pending, build, presets, statListeners, stateListeners,
                   message, modVars>>

\* the stat of the handler specification
HandlerStat == StatNew([id |-> <<"h", "p">>, baseValue |-> {100}, currentValue |-> {},
                        minValue |-> {80}, maxValue |-> {100}])

\* the texts of received messages: none, one command, several
HandlerTexts == {<<>>, Pieces[1], Pieces[3]}

\* the first chat is shown and has no stored state; its state, or the global
\* state, holds the stat hp
InitHandler ==
    /\ settings \in {DefaultSettings, [DefaultSettings EXCEPT !.stateScope = "global"]}
    /\ currentState = [NewState("sim") EXCEPT !.stats = ManagerAdd(@, HandlerStat)]
    /\ globalState = [NewGlobalState EXCEPT !.stats = ManagerAdd(@, HandlerStat)]
    /\ chatMetadata = [c \in Chats |-> NoState]
    /\ activeChat = "c1"
    /\ pending = <<>>
    /\ build \in {"bundle", "modules"}
    /\ presets = NoPresets
    /\ statListeners = <<>>
    /\ stateListeners = <<>>
    /\ calls = <<>>
    /\ ret = NoRet
    /\ message = <<>>
    /\ mod = NoMod
    /\ modHist = <<>>
    /\ coll = NoColl

NextHandler ==
    \/ \E text \in HandlerTexts, isUser \in BOOLEAN : MsgReceived(text, isUser)
    \/ \E i \in 1..MaxPending : SaveDone(i)
    \/ \E chat \in Chats : ChatChanged(chat)
    \/ Reset

SpecHandler == InitHandler /\ [][NextHandler]_vars

-----------------------------------------------------------------------------
(* The fromJSON deserializers on stored data that may be missing or        *)
(* malformed.  Stat, StatManager and SimulationState are those of           *)
(* src/index.js; the others are those of src/unnamed/part_001.               *)

\* most entries of a stored array
MaxItems == 2

\* the arrays of at most MaxItems entries taken from a set
Arrays(entries) ==
    {Array(items) : items \in UNION {[1..n -> entries] : n \in 0..MaxItems}}

\* entries of a stored array of stats: null, a number, an object with no
\* field, a stat as toJSON writes it
StatEntries ==
    {[kind |-> "null"], [kind |-> "number"], EmptyObject, StatToJSON(HpStat)}

\* entries of a stored array of modifiers: null, an object with some fields,
\* a modifier as toJSON writes it
ModEntries ==
    {[kind |-> "null"], [id |-> {<<"m", "1">>}, type |-> "multiply", value |-> {2}],
     ModifierToJSON(ModifierNewAt([type |-> "add", value |-> {10}, duration |-> {2}], 0))}

\* values stored where a StatManager is expected
ManagerInputs ==
    NonObjects \cup {EmptyObject, Array(<<>>)}
        \cup {[stats |-> x] : x \in NonObjects \cup {EmptyObject}}
        \cup {[stats |-> a] : a \in Arrays(StatEntries)}

\* values stored where a SimulationState is expected
StateInputs ==
    NonObjects \cup {EmptyObject, Array(<<>>)}
        \cup {[id |-> "c1", turnCount |-> 1, statManager |-> m] : m \in ManagerInputs}

\* Map.set(mod.id, mod) on the modifiers in Map order
ModifiersSet(ms, m) ==
    IF \E i \in DOMAIN ms : ms[i].id = m.id
    THEN [i \in DOMAIN ms |-> IF ms[i].id = m.id THEN m ELSE ms[i]]
    ELSE Append(ms, m)

\* the loop of ModifierCollection.fromJSON over the entries left
RECURSIVE CollLoad(_, _, _)
CollLoad(entries, ms, now) ==
    IF entries = <<>>
    THEN ms
    ELSE CollLoad(Tail(entries), ModifiersSet(ms, ModifierFromJSONAt(Head(entries), now)), now)

\* ModifierCollection.fromJSON(data) when Date.now() returns now; data.statId
\* is a set, {} when missing or no string
CollFromJSONAt(data, now) ==
    IF ~IsObject(data)
    THEN CollNew(<<"u", "n", "k", "n", "o", "w", "n">>)
    ELSE LET statId == Field(data, "statId", {})
             modifiers == Field(data, "modifiers", EmptyObject)
         IN  [ statId    |-> IF statId # {} /\ isNonEmptyString(The(statId))
                             THEN UtilsSanitizeId(The(statId))
                             ELSE <<"u", "n", "n", "a", "m", "e", "d", "_", "t">>,
               modifiers |-> IF IsArray(modifiers)
                             THEN CollLoad(modifiers.items, <<>>, now)
                             ELSE <<>> ]

\* new StatPreset(config): the entries of config.stats are kept as they are
PresetNew(config) ==
    LET stats == Field(config, "stats", EmptyObject)
    IN  [ id    |-> IF "id" \in DOMAIN config /\ isNonEmptyString(config.id)
                    THEN config.id
                    ELSE GenerateId(<<"p", "r", "e", "s", "e", "t">>),
          stats |-> IF IsArray(stats) THEN stats.items ELSE <<>> ]

\* StatPreset.fromJSON(data)
PresetFromJSON(data) ==
    IF ~isPlainObject(data) THEN PresetNew(EmptyObject) ELSE PresetNew(data)

\* the loop of PresetManager.fromJSON over the entries left: the Map from
\* preset id to preset
RECURSIVE PresetsLoad(_, _)
PresetsLoad(entries, loaded) ==
    IF entries = <<>>
    THEN loaded
    ELSE LET preset == PresetFromJSON(Head(entries))
         IN  PresetsLoad(Tail(entries), MapSet(loaded, preset.id, preset))

\* PresetManager.fromJSON(data): this._presets after the call
PresetManagerFromJSON(data) ==
    IF IsArray(data) THEN PresetsLoad(data.items, EmptyStats) ELSE EmptyStats

\* values stored where a StatPreset is expected
PresetEntries ==
    NonObjects \cup {EmptyObject, Array(<<>>)}
        \cup {[id |-> <<"p", "1">>, stats |-> Array(<<StatToJSON(HpStat), [kind |-> "null"]>>)]}

\* what a deserializer gave: whether it threw and, if not, what it returned
Returned(class, threw, value) ==
    [op |-> "fromJSON", id |-> <<>>, arg |-> class, result |-> [threw |-> threw, value |-> value]]

\* Stat.fromJSON(data)
StatFromJSONOp(data) ==
    /\ \E made \in {StatFromJSON(data)} :
          ret' = Returned("Stat", made.threw, IF made.threw THEN 0 ELSE made.stat)
    /\ UNCHANGED <<currentState, globalState, settings, message, hostVars, listenerVars,
                   modVars>>

\* getActiveState().statManager.fromJSON(data)
ManagerFromJSONOp(data) ==
    /\ \E loaded \in {ManagerFromJSON(data)} :
          /\ UpdateActive([ActiveState EXCEPT !.stats = loaded.stats])
          /\ ret' = Returned("StatManager", loaded.threw, 0)
    /\ UNCHANGED <<settings, message, hostVars, listenerVars, modVars>>

\* SimulationState.fromJSON(data)
StateFromJSONOp(data) ==
    /\ \E made \in {StateFromJSON(data)} :
          ret' = Returned("SimulationState", made.threw, IF made.threw THEN 0 ELSE made.state)
    /\ UNCHANGED <<currentState, globalState, settings, message, hostVars, listenerVars,
                   modVars>>

\* StatModifier.fromJSON(data)
ModifierFromJSONOp(data) ==
    /\ ret' = Returned("StatModifier", FALSE, ModifierFromJSONAt(data, 1))
    /\ UNCHANGED <<currentState, globalState, settings, message, hostVars, listenerVars,
                   modVars>>

\* ModifierCollection.fromJSON(data)
CollFromJSONOp(data) ==
    /\ ret' = Returned("ModifierCollection", FALSE, CollFromJSONAt(data, 1))
    /\ UNCHANGED <<currentState, globalState, settings, message, hostVars, listenerVars,
                   modVars>>

\* StatPreset.fromJSON(data)
PresetFromJSONOp(data) ==
    /\ ret' = Returned("StatPreset", FALSE, PresetFromJSON(data))
    /\ UNCHANGED <<currentState, globalState, settings, message, hostVars, listenerVars,
                   modVars>>

\* presetManager.fromJSON(data)
PresetManagerFromJSONOp(data) ==
    /\ ret' = Returned("PresetManager", FALSE, PresetManagerFromJSON(data))
    /\ UNCHANGED <<currentState, globalState, settings, message, hostVars, listenerVars,
                   modVars>>

NextJson ==
    \/ \E data \in NonObjects \cup StatEntries : StatFromJSONOp(data)
    \/ \E data \in ManagerInputs : ManagerFromJSONOp(data)
    \/ \E data \in StateInputs : StateFromJSONOp(data)
    \/ \E data \in NonObjects \cup {Array(<<>>)} \cup ModEntries : ModifierFromJSONOp(data)
    \/ \E data \in NonObjects \cup {EmptyObject}
                       \cup {[statId |-> {<<"H", "P">>}, modifiers |-> a] : a \in Arrays(ModEntries)} :
          CollFromJSONOp(data)
    \/ \E data \in PresetEntries : PresetFromJSONOp(data)
    \/ \E data \in NonObjects \cup {EmptyObject} \cup Arrays(PresetEntries) :
          PresetManagerFromJSONOp(data)

SpecJson == InitRound /\ [][NextJson]_vars

\* C19: no fromJSON deserializer throws, whatever its input or an entry of
\* its input list is: null, a value that is no object, an object with
\* missing fields
C19_NeverThrows == ret.op = "fromJSON" => ~ret.result.threw

-----------------------------------------------------------------------------
(* StateManager.applyPreset (src/unnamed/part_000) on the presets that       *)
(* _loadPresets read from the extension settings.  The stat classes of the  *)
(* modules are not part of the sources at hand; StatManager.fromJSON is the *)
(* one of src/index.js.                                                      *)

\* extensionSettings['simulation_builder_presets']: a preset of two stats, a
\* preset with no stat and presets whose stat list holds a null entry
StoredPresets ==
    Array(<< [id |-> <<"p", "1">>,
              stats |-> Array(<<StatToJSON(HpStat), StatToJSON(MpStat)>>)],
             [id |-> <<"p", "2">>, stats |-> Array(<<>>)],
             [id |-> <<"p", "3">>,
              stats |-> Array(<<StatToJSON(MpStat), [kind |-> "null"]>>)],
             [id |-> <<"p", "4">>,
              stats |-> Array(<<[kind |-> "null"], StatToJSON(MpStat)>>)] >>)

\* this.presetManager._presets after _loadPresets
Presets == PresetManagerFromJSON(StoredPresets)

\* what applyPreset gave: whether it threw and what it returned
PresetResult(presetId, threw, returned) ==
    [op |-> "applyPreset", id |-> presetId, arg |-> 0,
     result |-> [threw |-> threw, returned |-> returned]]

\* stateManager.applyPreset(presetId); preset.stats is an array in every
\* StatPreset
ApplyPreset(presetId) ==
    /\ IF presetId \notin DOMAIN presets \/ ActiveState.id = "none"
       THEN /\ ret' = PresetResult(presetId, FALSE, FALSE)
            /\ UNCHANGED <<currentState, globalState, settings, calls>>
       ELSE \E loaded \in {ManagerFromJSON([stats |-> Array(presets[presetId].stats)])} :
               /\ UpdateActive([ActiveState EXCEPT !.stats = loaded.stats])
               /\ IF loaded.threw
                  THEN /\ ret' = PresetResult(presetId, TRUE, FALSE)
                       /\ UNCHANGED <<settings, calls>>
                  ELSE /\ settings' = [settings EXCEPT !.activePresetId = presetId]
                       /\ \E n \in {Notify(stateListeners,
                                           [type |-> "preset_applied", presetId |-> presetId])} :
                             /\ calls' = n.calls
                             /\ ret' = PresetResult(presetId, n.escaped, ~n.escaped)
    /\ UNCHANGED <<hostVars, statListeners, stateListeners, message, modVars>>

\* stats are added and modified and presets, known and unknown, are applied
NextPreset ==
    \/ \E n \in StatNames, m \in Opt({50}) : SimAdd(n, m, {})
    \/ \E n \in StatNames, d \in Deltas : SimMod(n, d)
    \/ \E presetId \in DOMAIN Presets \cup {<<"p", "9">>} : ApplyPreset(presetId)

\* the state of InitRound after _loadPresets has read the stored presets
InitPreset ==
    /\ currentState = NewState("sim")
    /\ globalState = NewGlobalState
    /\ settings = DefaultSettings
    /\ chatMetadata = <<>>
    /\ activeChat = "c1"
    /\ pending = <<>>
    /\ build = "modules"
    /\ presets = Presets
    /\ statListeners = <<>>
    /\ stateListeners = <<>>
    /\ calls = <<>>
    /\ ret = NoRet
    /\ message = <<>>
    /\ mod = NoMod
    /\ modHist = <<>>
    /\ coll = NoColl

SpecPreset == InitPreset /\ [][NextPreset]_vars

\* the stats a preset describes: one stat per entry of its list, an entry that
\* is no stat standing for a stat of defaults
RECURSIVE Described(_, _)
Described(entries, stats) ==
    IF entries = <<>>
    THEN stats
    ELSE Described(Tail(entries),
                   ManagerAdd(stats, StatNew(IF isPlainObject(Head(entries))
                                             THEN Head(entries)
                                             ELSE EmptyObject)))

-----------------------------------------------------------------------------
(* StateManager.saveAsPreset and PresetManager.createFromState: presets as   *)
(* snapshots of the live stats                                               *)

\* presets saved in one run
MaxPresets == 2

\* the ids generateId('preset') gives: they differ by time and random part
PresetIds == {GenerateId(<<"p", "r", "e", "s", "e", "t">>) \o <<Digits[i + 1]>> : i \in 1..MaxPresets}

CreateFromState_IdsOnly(state, id) ==
    [PresetNew([stats |-> Array([i \in DOMAIN MapValues(state.stats) |->
                                    [id |-> MapValues(state.stats)[i].id]])])
        EXCEPT !.id = id]

\* PresetManager.createFromState(state, name): each stat is written by
\* toJSON() into an object of its own; id is what generateId gave the preset
CreateFromState(state, id) ==
    [PresetNew([stats |-> ManagerToJSON(state.stats).stats]) EXCEPT !.id = id]

\* what saveAsPreset returned: the preset, or null
SavedResult(id, saved) ==
    [op |-> "saveAsPreset", id |-> id, arg |-> 0, result |-> [saved |-> saved]]

\* stateManager.saveAsPreset(name, description)
SaveAsPreset(id) ==
    /\ IF ActiveState.id = "none"
       THEN /\ ret' = SavedResult(<<>>, FALSE)
            /\ presets' = presets
       ELSE /\ presets' = MapSet(presets, id, CreateFromState(ActiveState, id))
            /\ ret' = SavedResult(id, TRUE)
    /\ UNCHANGED <<currentState, globalState, settings, message, chatMetadata, activeChat,
                   pending, build, listenerVars, modVars>>

\* stats are added, snapshots of them are saved as presets and applied, and
\* the live stats are modified, set, reset and changed by messages
NextSnap ==
    \/ \E n \in StatNames : SimAdd(n, {}, {})
    \/ \E id \in PresetIds : SaveAsPreset(id)
    \/ \E presetId \in PresetIds : ApplyPreset(presetId)
    \/ \E n \in StatNames : SimMod(n, 0 - 50)
    \/ \E n \in StatNames : SimSet(n, 0)
    \/ SimReset
    \/ ProcessMessage(Pieces[3])

\* the modules after initialize() on a chat with no stored state and with no
\* stored preset
InitSnap ==
    /\ currentState = NewState("sim")
    /\ globalState = NewGlobalState
    /\ settings = DefaultSettings
    /\ chatMetadata = <<>>
    /\ activeChat = "c1"
    /\ pending = <<>>
    /\ build = "modules"
    /\ presets = NoPresets
    /\ statListeners = <<>>
    /\ stateListeners = <<>>
    /\ calls = <<>>
    /\ ret = NoRet
    /\ message = <<>>
    /\ mod = NoMod
    /\ modHist = <<>>
    /\ coll = NoColl

SpecSnap == InitSnap /\ [][NextSnap]_vars

\* the two stat maps hold the same stats with the same stored values
SameValues(a, b) ==
    /\ DOMAIN a = DOMAIN b
    /\ \A k \in DOMAIN a :
          \A f \in {"id", "name", "baseValue", "currentValue", "minValue", "maxValue",
                    "displayMode"} : a[k][f] = b[k][f]

-----------------------------------------------------------------------------
(* The per-turn lifecycle of the StateManager: tick, reset, processMessage   *)
(* and setStateScope, before and after initialize(), in both scopes and both *)
(* builds                                                                    *)

\* StateManager.setStateScope(scope)
SetStateScope(scope) ==
    /\ IF scope \in {"global", "per_chat"}
       THEN /\ settings' = [settings EXCEPT !.stateScope = scope]
            /\ \E n \in {Notify(stateListeners, [type |-> "scope_changed", scope |-> scope])} :
                  /\ calls' = n.calls
                  /\ ret' = [NoRet EXCEPT !.op = "setStateScope", !.arg = scope,
                               !.result = [threw |-> n.escaped]]
       ELSE /\ ret' = [NoRet EXCEPT !.op = "setStateScope", !.arg = scope,
                         !.result = [threw |-> FALSE]]
            /\ UNCHANGED <<settings, calls>>
    /\ UNCHANGED <<currentState, globalState, hostVars, statListeners, stateListeners,
                   message, modVars>>

\* the values handed to setStateScope: the two scopes and another string
ScopeArgs == {"global", "per_chat", "chat"}

\* the manager as constructed (no state yet) or after initialize() on a chat
\* whose state, like the global state, holds the stat hp; two state-change
\* listeners are registered, the first of which throws
InitLife ==
    /\ settings \in {DefaultSettings, [DefaultSettings EXCEPT !.stateScope = "global"]}
    /\ \/ currentState = NoState /\ globalState = NoState
       \/ /\ currentState = [NewState("sim") EXCEPT !.stats = ManagerAdd(@, HpStat)]
          /\ globalState = [NewGlobalState EXCEPT !.stats = ManagerAdd(@, HpStat)]
    /\ chatMetadata = <<>>
    /\ activeChat = "c1"
    /\ pending = <<>>
    /\ build \in {"bundle", "modules"}
    /\ presets = NoPresets
    /\ statListeners = <<>>
    /\ stateListeners = <<"throws", "ok">>
    /\ calls = <<>>
    /\ ret = NoRet
    /\ message = <<>>
    /\ mod = NoMod
    /\ modHist = <<>>
    /\ coll = NoColl

NextLife ==
    \/ Tick
    \/ Reset
    \/ ProcessMessage(Pieces[2])
    \/ \E scope \in ScopeArgs : SetStateScope(scope)

SpecLife == InitLife /\ [][NextLife]_vars

\* C22: tick() with an active state increments its turnCount by one, returns
\* success with the turn and the list of the ids of the expired modifiers, and
\* calls every state-change listener with the event 'tick'; with no active
\* state it returns success = false, changes no state and calls no listener
C22_TickContract ==
    [][ret'.op = "tick" =>
          IF ActiveState.id = "none"
          THEN /\ ~ret'.result.success
               /\ UNCHANGED <<currentState, globalState, settings>>
               /\ calls' = calls
          ELSE /\ ActiveState'.turnCount = ActiveState.turnCount + 1
               /\ ActiveState'.stats = ActiveState.stats
               /\ ret'.result.success
               /\ ret'.result.turn = ActiveState'.turnCount
               /\ "expiredModifiers" \in DOMAIN ret'.result
               /\ Len(calls') = Len(stateListeners)
               /\ \A i \in DOMAIN calls' :
                     calls'[i].listener = i /\ calls'[i].event.type = "tick"]_vars

-----------------------------------------------------------------------------
(* Claims on reset *)

\* value is v clamped into [lo, hi]: it lies in the interval and is v itself,
\* or the bound on the side of v, when v lies outside
IsClamped(value, v, lo, hi) ==
    /\ lo <= value /\ value <= hi
    /\ (lo <= v /\ v <= hi) => value = v
    /\ v < lo => value = lo
    /\ v > hi => value = hi

\* C23: Stat.reset() has the effect and the result of set(baseValue), and
\* StateManager.reset() leaves the active state with turnCount = 0 and every
\* stat with currentValue = baseValue clamped into [minValue, maxValue],
\* whatever was done to the stats before
C23_ResetRestoresBase ==
    [][ret'.op = "reset" =>
          /\ ActiveState'.turnCount = 0
          /\ DOMAIN ActiveState'.stats = DOMAIN ActiveState.stats
          /\ \A k \in DOMAIN ActiveState.stats :
                LET s == ActiveState.stats[k]
                    t == ActiveState'.stats[k]
                IN  /\ StatReset(s) = StatSet(s, s.baseValue)
                    /\ t = StatReset(s).stat
                    /\ IsClamped(t.currentValue, s.baseValue, s.minValue, s.maxValue)]_vars

-----------------------------------------------------------------------------
(* Claims on the scopes and on the message handler *)

\* C24: in GLOBAL scope the stats are shared by all chats: when a chat-changed
\* event has re-initialized the manager, for the same chat or another, the
\* active state holds the stats, with the values, that the global state had
\* before the event
C24_GlobalShared ==
    [][(ret'.op = "onChatChanged" /\ settings.stateScope = "global") =>
          SameValues(ActiveState'.stats, ActiveState.stats)]_vars

\* C25: when a chat-changed event was handled while a message handler was
\* suspended at its await, so that the handler resumes with another chat
\* shown than the one its commands were applied in, the tick of the handler
\* does not advance the turnCount of the state loaded for the new chat
C25_TickOnOwnState ==
    [][(/\ ret'.op = "tick"
        /\ \E i \in DOMAIN pending :
              pending' = RemoveAt(pending, i) /\ pending[i].chat # activeChat)
          => /\ currentState'.turnCount = currentState.turnCount
             /\ globalState'.turnCount = globalState.turnCount]_vars

\* C26: when the message handler has processed a message that changed a stat
\* of the active state, the persisted copy it wrote holds the stats of that
\* active state, in PER_CHAT and in GLOBAL scope
C26_PersistedIsActive ==
    [][(ret'.op = "processMessage" /\ ActiveState'.stats # ActiveState.stats) =>
          /\ Persisted'.id # "none"
          /\ Persisted'.statManager = ManagerToJSON(ActiveState'.stats)]_vars

-----------------------------------------------------------------------------
(* Listeners that unsubscribe: onStateChange / onStatChange return a function *)
(* that removes the listener, and _notifyStateChange / _notifyStatChange     *)
(* iterate the live array.  A listener is [fn, kind, target]: the function,  *)
(* and whether it calls, when invoked, the unsubscribe function of target.   *)

\* the functions registered as listeners
Fns == 1..MaxListeners

\* what a listener does when invoked: nothing, or unsubscribe the target
Listeners == [fn : Fns, kind : {"ok"}, target : {0}] \cup [fn : Fns, kind : {"unsub"}, target : Fns]

\* this._stateChangeListeners.indexOf(listener), 0 for -1
RECURSIVE IndexOfFrom(_, _, _)
IndexOfFrom(listeners, fn, i) ==
    IF i > Len(listeners) THEN 0
    ELSE IF listeners[i].fn = fn THEN i
    ELSE IndexOfFrom(listeners, fn, i + 1)

\* the function onStateChange returned for fn, called: the array after it
Unsubscribed(listeners, fn) ==
    LET idx == IndexOfFrom(listeners, fn, 1)
    IN  IF idx > 0 THEN RemoveAt(listeners, idx) ELSE listeners

\* for (const listener of this._stateChangeListeners) { try { listener(...) }
\* catch }: the array iterator is at position i of the live array; the
\* functions called so far, and the array when the loop ends
RECURSIVE Dispatch(_, _, _)
Dispatch(listeners, i, called) ==
    IF i > Len(listeners)
    THEN [listeners |-> listeners, called |-> called]
    ELSE LET listener == listeners[i]
             after == IF listener.kind = "unsub"
                      THEN Unsubscribed(listeners, listener.target)
                      ELSE listeners
         IN  Dispatch(after, i + 1, Append(called, listener.fn))

\* onStateChange(listener) / onStatChange(listener) with a function
Subscribe(which, listener) ==
    /\ Len(stateListeners) + Len(statListeners) < MaxListeners
    /\ IF which = "state"
       THEN /\ IndexOfFrom(stateListeners, listener.fn, 1) = 0
            /\ stateListeners' = Append(stateListeners, listener)
            /\ UNCHANGED statListeners
       ELSE /\ IndexOfFrom(statListeners, listener.fn, 1) = 0
            /\ statListeners' = Append(statListeners, listener)
            /\ UNCHANGED stateListeners
    /\ calls' = <<>>
    /\ ret' = [NoRet EXCEPT !.op = "subscribe", !.id = which, !.arg = listener.fn]
    /\ UNCHANGED <<currentState, globalState, settings, hostVars, message, modVars>>

\* the function returned by onStateChange / onStatChange, called outside a
\* dispatch
Unsubscribe(which, fn) ==
    /\ IF which = "state"
       THEN stateListeners' = Unsubscribed(stateListeners, fn) /\ UNCHANGED statListeners
       ELSE statListeners' = Unsubscribed(statListeners, fn) /\ UNCHANGED stateListeners
    /\ calls' = <<>>
    /\ ret' = [NoRet EXCEPT !.op = "unsubscribe", !.id = which, !.arg = fn]
    /\ UNCHANGED <<currentState, globalState, settings, hostVars, message, modVars>>

\* _notifyStateChange(eventType, data) / _notifyStatChange(stat, result)
NotifyChange(which) ==
    /\ \E done \in {Dispatch(IF which = "state" THEN stateListeners ELSE statListeners,
                             1, <<>>)} :
          /\ IF which = "state"
             THEN stateListeners' = done.listeners /\ UNCHANGED statListeners
             ELSE statListeners' = done.listeners /\ UNCHANGED stateListeners
          /\ calls' = done.called
    /\ ret' = [NoRet EXCEPT !.op = "notify", !.id = which]
    /\ UNCHANGED <<currentState, globalState, settings, hostVars, message, modVars>>

\* the two listener arrays
ListenerArrays == {"state", "stat"}

InitDispatch ==
    /\ currentState = NewState("sim")
    /\ globalState = NewGlobalState
    /\ settings = DefaultSettings
    /\ chatMetadata = <<>>
    /\ activeChat = "c1"
    /\ pending = <<>>
    /\ build \in {"bundle", "modules"}
    /\ presets = NoPresets
    /\ statListeners = <<>>
    /\ stateListeners = <<>>
    /\ calls = <<>>
    /\ ret = NoRet
    /\ message = <<>>
    /\ mod = NoMod
    /\ modHist = <<>>
    /\ coll = NoColl

NextDispatch ==
    \/ \E which \in ListenerArrays, listener \in Listeners : Subscribe(which, listener)
    \/ \E which \in ListenerArrays, fn \in Fns : Unsubscribe(which, fn)
    \/ \E which \in ListenerArrays : NotifyChange(which)

SpecDispatch == InitDispatch /\ [][NextDispatch]_vars

\* the array the operation was on
ArrayOf(which, state, stat) == IF which = "state" THEN state ELSE stat

\* how many times fn occurs in the sequence of called functions
Count(called, fn) == Cardinality({i \in DOMAIN called : called[i] = fn})

\* C27: a dispatch invokes every listener registered when it starts exactly
\* once, also when a listener unsubscribes itself or another listener during
\* the dispatch, and invokes no other; and after unsubscribe returns, the
\* listener is no longer registered, so no later dispatch invokes it
C27_EveryListenerOnce ==
    [][/\ ret'.op = "notify" =>
            \A fn \in Fns :
                Count(calls', fn) =
                    IF IndexOfFrom(ArrayOf(ret'.id, stateListeners, statListeners), fn, 1) > 0
                    THEN 1 ELSE 0
       /\ ret'.op = "unsubscribe" =>
            IndexOfFrom(ArrayOf(ret'.id, stateListeners', statListeners'), ret'.arg, 1) = 0]_vars

\* C28: processMessage, tick and reset change only the state the scope
\* setting selects: in PER_CHAT scope globalState, in GLOBAL scope
\* currentState, stays as it is, and so does the scope; setStateScope changes
\* no state, and with a value that is neither 'global' nor 'per_chat' it
\* leaves the scope unchanged and notifies no listener
C28_OnlySelectedState ==
    [][/\ ret'.op \in {"processMessage", "tick", "reset"} =>
            /\ settings' = settings
            /\ IF settings.stateScope = "global"
               THEN currentState' = currentState
               ELSE globalState' = globalState
       /\ ret'.op = "setStateScope" =>
            /\ UNCHANGED <<currentState, globalState>>
            /\ IF ret'.arg \in {"global", "per_chat"}
               THEN settings'.stateScope = ret'.arg
               ELSE settings' = settings /\ calls' = calls]_vars

\* in GLOBAL scope a message has lowered hp of the global state, which was
\* then ticked to the last turn, while the chat's state, changed earlier in
\* PER_CHAT scope, kept its own stats and turnCount
C28_Witness ==
    /\ ret.op = "tick"
    /\ settings.stateScope = "global"
    /\ globalState.turnCount = MaxTurns
    /\ globalState.stats[<<"h", "p">>].currentValue = 60
    /\ currentState.turnCount = 1
    /\ currentState.stats[<<"h", "p">>].currentValue = 80

\* C29: the message handler saves the state and goes on to tick only when a
\* command of the message was applied to an existing stat; a user message, a
\* message without commands, a message received while the extension is
\* disabled and a message whose commands all name missing stats write no
\* persisted copy and suspend no handler; handling the message itself leaves
\* every turnCount unchanged, and the one tick of a resumed handler advances
\* the turnCount of the active state by one
C29_TickOnlyOnSuccess ==
    [][/\ ret'.op \in {"processMessage", "onMessageReceived"} =>
            /\ currentState'.turnCount = currentState.turnCount
            /\ globalState'.turnCount = globalState.turnCount
            /\ (Len(pending') > Len(pending) \/ chatMetadata' # chatMetadata) =>
                  /\ ret'.op = "processMessage"
                  /\ \E i \in DOMAIN ret'.result.changes : IsSuccess(ret'.result.changes[i])
            /\ Len(pending') <= Len(pending) + 1
       /\ ret'.op = "tick" =>
            /\ Len(pending') = Len(pending) - 1
            /\ ActiveState'.turnCount = ActiveState.turnCount + 1]_vars

-----------------------------------------------------------------------------
(* StateManager.importState *)

\* what importState gave: the parsed value it was called with and the
\* boolean it returned
ImportResult(data, returned) ==
    [op |-> "importState", id |-> <<>>, arg |-> data, result |-> [returned |-> returned]]

\* stateManager.importState(jsonString), data being safeJsonParse(jsonString,
\* null): null for a text that is no JSON
ImportState(data) ==
    /\ IF data = [kind |-> "null"]
       THEN /\ ret' = ImportResult(data, FALSE)
            /\ calls' = <<>>
            /\ UNCHANGED currentState
       ELSE \E made \in {StateFromJSON(data)} :
               IF made.threw
               THEN /\ ret' = ImportResult(data, FALSE)
                    /\ calls' = <<>>
                    /\ UNCHANGED currentState
               ELSE /\ currentState' = made.state
                    /\ calls' = Notify(stateListeners, [type |-> "import"]).calls
                    /\ ret' = ImportResult(data, TRUE)
    /\ UNCHANGED <<globalState, settings, hostVars, statListeners, stateListeners, message,
                   modVars>>

\* the parsed texts handed to importState: no JSON, a number, an object with
\* no field, an exported state of turn 1 with the stat mp, and such a state
\* whose stat list ends with null
ImportInputs ==
    { [kind |-> "null"], [kind |-> "number"], EmptyObject,
      StateToJSON([id |-> "imported", name |-> "Imported", turnCount |-> 1,
                   stats |-> ManagerAdd(EmptyStats, MpStat)]),
      [id |-> "imported", name |-> "Imported", turnCount |-> 1,
       statManager |-> [stats |-> Array(<<StatToJSON(MpStat), [kind |-> "null"]>>)]] }

NextImport ==
    \/ \E data \in ImportInputs : ImportState(data)
    \/ Tick
    \/ ProcessMessage(Pieces[2])

SpecImport == InitLife /\ [][NextImport]_vars

\* C30: after importState returned true the active state, in either scope, is
\* the state the JSON describes (its id, name, turnCount and stats); after it
\* returned false currentState and globalState are as before and no listener
\* was called
C30_ImportState ==
    [][ret'.op = "importState" =>
          IF ret'.result.returned
          THEN LET described == StateFromJSON(ret'.arg).state
               IN  /\ ActiveState'.id = described.id
                   /\ ActiveState'.name = described.name
                   /\ ActiveState'.turnCount = described.turnCount
                   /\ SameValues(ActiveState'.stats, described.stats)
          ELSE /\ UNCHANGED <<currentState, globalState>>
               /\ calls' = <<>>]_vars

=============================================================================
